---- MODULE Spec2Model ----
(***************************************************************************)
(* Model of the filex backend indexer (backend/src/services/indexer.rs):   *)
(* the single-flight guard of run_full_index, the background loop, the     *)
(* manual trigger, and the two-phase scan of do_index over a small         *)
(* filesystem and the indexed_files table.                                 *)
(***************************************************************************)
EXTENDS Integers, Sequences, FiniteSets, TLC

\* ------------------------------------------------------------------ bounds
\* number of concurrently spawned manual trigger tasks (api/system.rs)
NumManual == 1
\* configured index_interval_secs, in clock ticks
Interval == 1
\* longest duration, in clock ticks, of one run_full_index call of the loop
MaxScanTicks == 2
\* number of changes the environment makes to the filesystem
MaxFsChanges == 1
\* largest number of entries the search index is grown to
MaxEntries == 2
\* largest number of streams in the output of the prober
MaxStreams == 2
\* largest number of file requests followed
MaxRequests == 2
\* width in bits of a stored offset. The offsets are u32 (search_index.rs
\* 28), which no run can fill; the arithmetic is kept and the width is
\* taken small, so that a buffer of a few bytes passes it
OffsetBits == 3
\* largest number of entries of an index whose offsets are followed
MaxOffsetEntries == 4

\* ------------------------------------------------------------- constants
Loop == 0
Manual == 1..NumManual
Procs == {Loop} \cup Manual
NoProc == -1
\* the task whose scans Spec follows
Scanner == 1
\* Option::None of an integer column or attribute
None == -1

\* indexed_at of a row: written by the run in progress (CURRENT_TIMESTAMP) or
\* before it started
Earlier == 0
CURRENT_TIMESTAMP == 1

STATUS_PENDING == "pending"
STATUS_COMPLETE == "complete"

\* the entries under the root, in the order the walker yields them
WalkOrder == <<"/", "/a.mp4", "/b.txt">>
Paths == {WalkOrder[i] : i \in 1..Len(WalkOrder)}

\* the files the second pass is followed on: an image, a video, a sound file,
\* a text file and a file without extension
ProbeFiles == {"/c.Png", "/d.MP4", "/e.mp3", "/f.TXT", "/g"}

\* Path::extension of each path as it is written ("" for None)
PathExtension == [p \in Paths \cup ProbeFiles |->
    CASE p = "/a.mp4" -> "mp4"
      [] p = "/b.txt" -> "txt"
      [] p = "/c.Png" -> "Png"
      [] p = "/d.MP4" -> "MP4"
      [] p = "/e.mp3" -> "mp3"
      [] p = "/f.TXT" -> "TXT"
      [] OTHER -> ""]

\* str::to_lowercase of an extension
ext_to_lowercase(e) ==
    CASE e = "Png" -> "png"
      [] e = "MP4" -> "mp4"
      [] e = "TXT" -> "txt"
      [] OTHER -> e

\* Path::extension of each path, lower-cased
Extension == [p \in Paths \cup ProbeFiles |-> ext_to_lowercase(PathExtension[p])]

MediaExtensions ==
    {"jpg", "jpeg", "png", "gif", "webp", "bmp", "tiff", "tif", "svg", "ico",
     "heic", "heif", "avif",
     "mp4", "mkv", "avi", "mov", "wmv", "flv", "webm", "m4v", "mpeg", "mpg",
     "3gp", "ts", "mts",
     "mp3", "wav", "flac", "aac", "ogg", "wma", "m4a", "opus", "aiff"}

is_likely_media_file_AnyExtension(p) == PathExtension[p] # ""
is_likely_media_file(p) == Extension[p] \in MediaExtensions

\* MetadataError variants other than NotMediaFile
ExtractFailures == {"FfprobeNotFound", "ExecutionFailed", "ParseError", "Timeout"}

\* MediaMetadata values the prober can return (width, height, duration)
MediaMetas == {[width |-> 1, height |-> 1, duration |-> 1],
               [width |-> None, height |-> None, duration |-> 1]}

VARIABLES
    is_running,        \* IndexerService.is_running: the flag inside the RwLock
    lockW,             \* the task holding the RwLock's write guard, or NoProc
    pc,                \* position of each task
    result,            \* what run_full_index returned to each task
    stats,             \* IndexStats of each task's run
    indexed_paths,     \* do_index: paths observed by the walk
    pending_metadata,  \* do_index: files queued for the second pass
    wi,                \* do_index: position of the walk in WalkOrder
    fs,                \* the filesystem under the root
    rootOk,            \* whether the configured root can be canonicalized
    store,             \* the indexed_files table, keyed by path
    fsChanges,         \* number of filesystem changes made so far
    sinceCall,         \* ticks since the loop last called run_full_index
    callDur,           \* duration in ticks of the loop's last call
    prevLong,          \* the loop's previous call scanned for longer than Interval
    ev,                \* the operation of the step just taken and its outcome
    hist,              \* what the walk, cleanup and second pass of the current run did
    retry,             \* files whose row a failed extraction left pending
    sinceScan,         \* "same" while the tree is as the last scan found it
    ids,               \* SearchIndex.ids: row id of each indexed path
    offsets,           \* SearchIndex.offsets: byte offset where each path starts
    normalized_paths,  \* SearchIndex.normalized_paths: the shared byte buffer
    original_paths,    \* SearchIndex.original_paths
    entries,           \* the (id, path) pairs the calls made so far amount to
    iev,               \* the last call on the search index and what it returned
    xfile,             \* do_index: the queued file the second pass is handling
    xpc,               \* position of the second pass and of its extract call
    child,             \* the ffprobe process started by extract
    child_opt,         \* extract: child_opt is Some
    output,            \* extract: the Output collected from the child
    xret,              \* what extract returned
    media_rows,        \* the indexed_files row of the queued file, by path
    requeued,          \* whether the next walk queued the file again
    rwlock,            \* SearchService.index: the guards held on the RwLock
    cpc,               \* position of each client of the search service
    cop,               \* the call each client is making or has made last
    new_index,         \* rebuild_from_db: rows and new_index
    mutation,          \* the locals of the mutation that holds the write guard
    disk,              \* the entries under the root the file requests work on
    table,             \* the indexed_files rows of those entries
    fev                \* the last file request and its response

\* the state of the indexer and of the search index
indexerVars == <<is_running, lockW, pc, result, stats, indexed_paths,
                 pending_metadata, wi, fs, rootOk, store, fsChanges, sinceCall,
                 callDur, prevLong, ev, hist, retry, sinceScan>>
indexVars == <<ids, offsets, normalized_paths, original_paths, entries, iev>>
\* the state of one extract call, of the clients of the search service and
\* of the file requests
probeVars == <<xfile, xpc, child, child_opt, output, xret, media_rows, requeued>>
serviceVars == <<rwlock, cpc, cop, new_index, mutation>>
filesVars == <<disk, table, fev>>
otherVars == <<probeVars, serviceVars, filesVars>>

vars == <<is_running, lockW, pc, result, stats, indexed_paths, pending_metadata,
          wi, fs, rootOk, store, fsChanges, sinceCall, callDur, prevLong,
          ev, hist, retry, sinceScan,
          ids, offsets, normalized_paths, original_paths, entries, iev,
          xfile, xpc, child, child_opt, output, xret, media_rows, requeued,
          rwlock, cpc, cop, new_index, mutation, disk, table, fev>>

DefaultStats == [files_scanned |-> 0, files_indexed |-> 0, files_updated |-> 0,
                 files_removed |-> 0, files_skipped |-> 0, errors |-> 0]

\* a path with no row in indexed_files
NoRow == [present |-> FALSE, is_dir |-> FALSE, size |-> None, modified |-> None,
          width |-> None, height |-> None, duration |-> None,
          metadata_status |-> "", indexed_at |-> None]

\* a path that does not exist on disk
NoEntry == [exists |-> FALSE, size |-> None, modified |-> None]

\* metadata.is_file() of a path of the tree
IsFile(p) == p # "/"

\* no MediaMetadata was returned
NoMeta == [width |-> None, height |-> None, duration |-> None]

NoEvent == [op |-> "none", proc |-> NoProc, path |-> "", lookup |-> "none",
            res |-> "none", meta |-> NoMeta]

Event(o, self, p, l, r) ==
    [op |-> o, proc |-> self, path |-> p, lookup |-> l, res |-> r, meta |-> NoMeta]

\* no call was made on the search index
NoCall == [op |-> "none", path |-> <<>>, query |-> <<>>, ret |-> FALSE, res |-> <<>>]

\* Option::None of a codec or format name
NoName == ""

\* MediaMetadata::default()
DefaultMetadata == [width |-> None, height |-> None, duration |-> None,
                    codec |-> NoName, format |-> NoName]

\* no Output was collected from a child
NoOutput == [status |-> "none"]

\* extract has not returned
NoReturn == [kind |-> "none"]

\* the clients of the search service: one that reads, one that mutates and
\* one that rebuilds
Reader == "reader"
Writer == "writer"
Rebuilder == "rebuilder"
Clients == {Reader, Writer, Rebuilder}
NoClient == "nobody"

\* no mutation of the index is under way
NoMutation == [idx |-> 0, diff |-> 0]

\* rebuild_from_db has fetched no rows and built no index
NoRebuild == [rows |-> <<>>]

\* no file request was made
NoRequest == [op |-> "none", count |-> 0]

\* what the current run has done so far
NoHist == [walked |-> {}, skipped |-> {}, probe |-> [p \in Paths |-> "none"],
           cleanup |-> "none", rescan |-> "none"]

\* the tree at startup: the root and the files of `files`
Tree(files) ==
    [p \in Paths |-> IF p = "/" \/ p \in files
                     THEN [exists |-> TRUE,
                           size |-> IF IsFile(p) THEN 1 ELSE None,
                           modified |-> 1]
                     ELSE NoEntry]

\* IndexerService::new, and main spawning the background loop when
\* config.enable_indexer is set
Boot(enable_indexer, files) ==
    /\ is_running = FALSE
    /\ lockW = NoProc
    /\ pc = [p \in Procs |-> IF p = Loop
                             THEN (IF enable_indexer THEN "acquire" ELSE "off")
                             ELSE "idle"]
    /\ result = [p \in Procs |-> "none"]
    /\ stats = [p \in Procs |-> DefaultStats]
    /\ indexed_paths = [p \in Procs |-> <<>>]
    /\ pending_metadata = [p \in Procs |-> <<>>]
    /\ wi = [p \in Procs |-> 0]
    /\ fs = Tree(files)
    /\ rootOk = TRUE
    /\ store = [p \in Paths |-> NoRow]
    /\ fsChanges = 0
    /\ sinceCall = 0
    /\ callDur = 0
    /\ prevLong = FALSE
    /\ ev = NoEvent
    /\ hist = NoHist
    /\ retry = {}
    /\ sinceScan = "none"
    /\ ids = <<>>
    /\ offsets = <<>>
    /\ normalized_paths = <<>>
    /\ original_paths = <<>>
    /\ entries = <<>>
    /\ iev = NoCall
    /\ xfile = "none"
    /\ xpc = "idle"
    /\ child = "none"
    /\ child_opt = FALSE
    /\ output = NoOutput
    /\ xret = NoReturn
    /\ media_rows = <<>>
    /\ requeued = "none"
    /\ rwlock = [readers |-> {}, writer |-> NoClient]
    /\ cpc = [c \in Clients |-> "idle"]
    /\ cop = <<>>
    /\ new_index = NoRebuild
    /\ mutation = NoMutation
    /\ disk = {}
    /\ table = {}
    /\ fev = NoRequest

\* the indexer is triggered by hand over a tree that changes under it
Init == Boot(FALSE, Paths)

\* the indexer is triggered by hand over a tree with one media file
InitLive == Boot(FALSE, {"/a.mp4"})

\* the background loop and manual triggers run over a tree with one file
InitFlight == Boot(TRUE, {"/b.txt"})

\* ------------------------------------------------- persistence gateway

\* db::get_file_by_path: the row of a path, if any
get_file_by_path(st, p) == st[p]

\* db::upsert_file: insert the row or overwrite every column of it
upsert_file(st, p, row) ==
    [st EXCEPT ![p] = [row EXCEPT !.indexed_at = CURRENT_TIMESTAMP]]

\* db::update_media_metadata: UPDATE ... WHERE path = ?
update_media_metadata_KeepStamp(st, p, w, h, d, status) ==
    IF st[p].present
    THEN [st EXCEPT ![p].width = w, ![p].height = h, ![p].duration = d,
                    ![p].metadata_status = status]
    ELSE st
update_media_metadata(st, p, w, h, d, status) ==
    IF st[p].present
    THEN [st EXCEPT ![p].width = w, ![p].height = h, ![p].duration = d,
                    ![p].metadata_status = status,
                    ![p].indexed_at = CURRENT_TIMESTAMP]
    ELSE st

\* the persisted paths the run did not observe
MissingPaths(st, observed) == {p \in Paths : st[p].present /\ p \notin observed}

\* db::remove_missing_files: delete every persisted path that is not observed
remove_missing_files(st, observed) ==
    [p \in Paths |-> IF p \in MissingPaths(st, observed) THEN NoRow ELSE st[p]]

\* ------------------------------------------------------- do_index helpers

SeqToSet(s) == {s[i] : i \in 1..Len(s)}

\* metadata_status chosen for a walked entry
metadata_status_MediaOnly(p) ==
    IF is_likely_media_file(p) THEN STATUS_PENDING ELSE STATUS_COMPLETE
metadata_status(p) == IF IsFile(p) THEN STATUS_PENDING ELSE STATUS_COMPLETE

\* fs_size: Some(len) for a file, None otherwise
fs_size(p, metadata) == IF IsFile(p) THEN metadata.size ELSE None

\* the change detection of the walk: both persisted attributes match
Unchanged_SizeOnly(p, row, metadata) == row.size = fs_size(p, metadata)
Unchanged(p, row, metadata) ==
    row.size = fs_size(p, metadata) /\ row.modified = metadata.modified

\* a skipped entry is queued for the second pass
SkipEnqueue_Never(p, db_status) == FALSE
SkipEnqueue(p, db_status) == IsFile(p) /\ db_status # STATUS_COMPLETE

\* indexed_paths after an unchanged entry was skipped
ObservedAfterSkip_Forget(paths, p) == paths
ObservedAfterSkip(paths, p) == Append(paths, p)

\* the IndexedFileRow the walk builds for a new or changed entry
IndexedFileRow_KeepStatus(p, metadata) ==
    [present |-> TRUE, is_dir |-> ~IsFile(p), size |-> fs_size(p, metadata),
     modified |-> metadata.modified, width |-> None, height |-> None,
     duration |-> None, metadata_status |-> STATUS_PENDING,
     indexed_at |-> None]
IndexedFileRow(p, metadata) ==
    [present |-> TRUE, is_dir |-> ~IsFile(p), size |-> fs_size(p, metadata),
     modified |-> metadata.modified, width |-> None, height |-> None,
     duration |-> None, metadata_status |-> metadata_status(p),
     indexed_at |-> None]

\* mime_guess::from_path(path).first(), top-level type only
mime_type(p) == IF Extension[p] = "mp4" THEN "video"
                ELSE IF Extension[p] = "txt" THEN "text"
                ELSE IF Extension[p] = "png" THEN "image"
                ELSE IF Extension[p] = "mp3" THEN "audio" ELSE "none"

is_image_Never(p) == FALSE
is_image(p) == mime_type(p) = "image"

\* the store after the extractor failed on a queued file
OnExtractError_MarkComplete(st, p) ==
    update_media_metadata(st, p, None, None, None, STATUS_COMPLETE)
OnExtractError(st, p) == st

\* the status written after NotMediaFile
NotMediaStatus_Pending == STATUS_PENDING
NotMediaStatus == STATUS_COMPLETE

\* the rows as a run leaves them to the next: every indexed_at is before
\* the start of that run
EndOfRun(st) ==
    [p \in Paths |-> IF st[p].present THEN [st[p] EXCEPT !.indexed_at = Earlier]
                     ELSE st[p]]

\* the row of p holds the size and modified-time p has on disk
Persisted(st, tree, p) ==
    /\ st[p].present
    /\ st[p].size = fs_size(p, tree[p])
    /\ st[p].modified = tree[p].modified

\* what a starting run is: a re-run over the tree the last completed scan
\* found ("all" when that scan persisted every entry, "some" otherwise), or
\* not a re-run
Rescan(since, st, tree) ==
    IF since # "same" THEN "none"
    ELSE IF \A p \in Paths : tree[p].exists => Persisted(st, tree, p)
         THEN "all" ELSE "some"

\* the walk failed to yield, read, look up or persist an entry
WalkFailed(h) == [h EXCEPT !.rescan = IF @ = "all" THEN "some" ELSE @]

\* pc values of a task inside do_index
BodyPcs == {"canon", "walk", "cleanup", "phase2"}
\* pc values of a non-skipped run between its check-and-set and its clear
ActivePcs == {"vacuum"} \cup BodyPcs \cup {"clear_acq", "clear"}


\* --------------------------------------------------------- run_full_index

Inc_Lost(st, self, field) == st
Inc(st, self, field) == [st EXCEPT ![self][field] = @ + 1]

\* run_full_index returns res to its caller: the task spawned by
\* trigger_index logs it and ends, the background loop logs it and starts
\* tokio::time::sleep(interval)
Returned(self, res) ==
    /\ pc' = [pc EXCEPT ![self] = IF self = Loop THEN "sleep" ELSE "idle"]
    /\ IF self = Loop
       THEN /\ callDur' = sinceCall
            /\ prevLong' = (res # "skipped" /\ sinceCall > Interval)
       ELSE UNCHANGED <<callDur, prevLong>>

\* trigger_index: tokio::spawn of run_full_index, answered at once
Trigger(self) ==
    /\ self \in Manual
    /\ pc[self] = "idle"
    /\ pc' = [pc EXCEPT ![self] = "acquire"]
    /\ ev' = NoEvent
    /\ UNCHANGED <<indexVars, otherVars, is_running, lockW, result, stats, indexed_paths,
                   pending_metadata, wi, fs, rootOk, store, fsChanges,
                   sinceCall, callDur, prevLong, hist, retry, sinceScan>>

\* self.is_running.write().await at the start of run_full_index
Acquire(self) ==
    /\ pc[self] = "acquire"
    /\ lockW = NoProc
    /\ lockW' = self
    /\ pc' = [pc EXCEPT ![self] = "check"]
    /\ ev' = NoEvent
    /\ UNCHANGED <<indexVars, otherVars, is_running, result, stats, indexed_paths, pending_metadata,
                   wi, fs, rootOk, store, fsChanges, sinceCall, callDur,
                   prevLong, hist, retry, sinceScan>>

\* the flag is not consulted: every call starts a scan
CheckAndSet_NoGuard(self) ==
    /\ pc[self] = "check"
    /\ lockW = self
    /\ is_running' = TRUE
    /\ lockW' = NoProc
    /\ pc' = [pc EXCEPT ![self] = "vacuum"]
    /\ ev' = Event("check", self, "", "none", "started")
    /\ UNCHANGED <<indexVars, otherVars, result, stats, indexed_paths, pending_metadata, wi, fs,
                   rootOk, store, fsChanges, sinceCall, callDur, prevLong, hist, retry, sinceScan>>

\* the skipped call clears the flag on its way out
CheckAndSet_SkipClears(self) ==
    /\ pc[self] = "check"
    /\ lockW = self
    /\ lockW' = NoProc
    /\ IF is_running
       THEN /\ stats' = [stats EXCEPT ![self] = DefaultStats]
            /\ Returned(self, "skipped")
            /\ is_running' = FALSE
            /\ ev' = Event("check", self, "", "none", "skipped")
       ELSE /\ is_running' = TRUE
            /\ pc' = [pc EXCEPT ![self] = "vacuum"]
            /\ ev' = Event("check", self, "", "none", "started")
            /\ UNCHANGED <<stats, callDur, prevLong>>
    /\ UNCHANGED <<indexVars, otherVars, result, indexed_paths, pending_metadata, wi, fs, rootOk,
                   store, fsChanges, sinceCall, hist, retry, sinceScan>>

\* the write guard is kept for the whole run
CheckAndSet_HoldLock(self) ==
    /\ pc[self] = "check"
    /\ lockW = self
    /\ IF is_running
       THEN /\ stats' = [stats EXCEPT ![self] = DefaultStats]
            /\ Returned(self, "skipped")
            /\ lockW' = NoProc
            /\ ev' = Event("check", self, "", "none", "skipped")
            /\ UNCHANGED is_running
       ELSE /\ is_running' = TRUE
            /\ pc' = [pc EXCEPT ![self] = "vacuum"]
            /\ ev' = Event("check", self, "", "none", "started")
            /\ UNCHANGED <<stats, callDur, prevLong, lockW>>
    /\ UNCHANGED <<indexVars, otherVars, result, indexed_paths, pending_metadata, wi, fs, rootOk,
                   store, fsChanges, sinceCall, hist, retry, sinceScan>>

\* if *running { return Ok(IndexStats::default()) }
\* *running = true; drop(running)
CheckAndSet(self) ==
    /\ pc[self] = "check"
    /\ lockW = self
    /\ lockW' = NoProc
    /\ IF is_running
       THEN /\ stats' = [stats EXCEPT ![self] = DefaultStats]
            /\ Returned(self, "skipped")
            /\ ev' = Event("check", self, "", "none", "skipped")
            /\ UNCHANGED is_running
       ELSE /\ is_running' = TRUE
            /\ pc' = [pc EXCEPT ![self] = "vacuum"]
            /\ ev' = Event("check", self, "", "none", "started")
            /\ UNCHANGED <<stats, callDur, prevLong>>
    /\ UNCHANGED <<indexVars, otherVars, result, indexed_paths, pending_metadata, wi, fs, rootOk,
                   store, fsChanges, sinceCall, hist, retry, sinceScan>>

\* db::vacuum, whose failure is only logged; then do_index starts
Vacuum(self) ==
    /\ pc[self] = "vacuum"
    /\ \E ok \in BOOLEAN :
          ev' = Event("vacuum", self, "", "none", IF ok THEN "ok" ELSE "db_err")
    /\ pc' = [pc EXCEPT ![self] = "canon"]
    /\ stats' = [stats EXCEPT ![self] = DefaultStats]
    /\ indexed_paths' = [indexed_paths EXCEPT ![self] = <<>>]
    /\ pending_metadata' = [pending_metadata EXCEPT ![self] = <<>>]
    /\ hist' = [NoHist EXCEPT !.rescan = Rescan(sinceScan, store, fs)]
    /\ sinceScan' = "same"
    /\ UNCHANGED <<indexVars, otherVars, is_running, lockW, result, wi, fs, rootOk, store, fsChanges,
                   sinceCall, callDur, prevLong, retry>>

\* the error of do_index leaves run_full_index before the flag is cleared
Canonicalize_EarlyReturn(self) ==
    /\ pc[self] = "canon"
    /\ IF rootOk
       THEN /\ pc' = [pc EXCEPT ![self] = "walk"]
            /\ wi' = [wi EXCEPT ![self] = 1]
            /\ ev' = Event("canon", self, "", "none", "ok")
            /\ UNCHANGED <<callDur, prevLong, sinceScan>>
       ELSE /\ Returned(self, "err")
            /\ ev' = Event("canon", self, "", "none", "err")
            /\ sinceScan' = "none"
            /\ UNCHANGED wi
    /\ UNCHANGED <<indexVars, otherVars, is_running, lockW, result, stats, indexed_paths,
                   pending_metadata, fs, rootOk, store, fsChanges, sinceCall,
                   hist, retry>>

\* let root = self.root.canonicalize()?  inside do_index
Canonicalize(self) ==
    /\ pc[self] = "canon"
    /\ IF rootOk
       THEN /\ pc' = [pc EXCEPT ![self] = "walk"]
            /\ wi' = [wi EXCEPT ![self] = 1]
            /\ ev' = Event("canon", self, "", "none", "ok")
            /\ UNCHANGED <<result, sinceScan>>
       ELSE /\ pc' = [pc EXCEPT ![self] = "clear_acq"]
            /\ result' = [result EXCEPT ![self] = "err"]
            /\ ev' = Event("canon", self, "", "none", "err")
            /\ sinceScan' = "none"
            /\ UNCHANGED wi
    /\ UNCHANGED <<indexVars, otherVars, is_running, lockW, stats, indexed_paths, pending_metadata,
                   fs, rootOk, store, fsChanges, sinceCall, callDur, prevLong,
                   hist, retry>>



\* one iteration of the walk loop of do_index
WalkEntry(self) ==
    /\ pc[self] = "walk"
    /\ LET path == WalkOrder[wi[self]]
           metadata == fs[path]
           row == get_file_by_path(store, path)
           scanned == [stats[self] EXCEPT !.files_scanned = @ + 1]
           new_row == IndexedFileRow(path, metadata)
       IN
       /\ wi' = [wi EXCEPT ![self] = @ + 1]
       /\ pc' = [pc EXCEPT ![self] =
                    IF wi[self] = Len(WalkOrder) THEN "cleanup" ELSE "walk"]
       /\ \/ \* the path is not on disk: the walker yields nothing for it
             /\ ~metadata.exists
             /\ ev' = Event("walk", self, path, "none", "absent")
             /\ UNCHANGED <<stats, indexed_paths, pending_metadata, store, hist,
                            retry>>
          \/ \* the walker yields Err(e)
             /\ metadata.exists
             /\ stats' = Inc(stats, self, "errors")
             /\ ev' = Event("walk", self, path, "none", "walk_err")
             /\ hist' = WalkFailed(hist)
             /\ UNCHANGED <<indexed_paths, pending_metadata, store, retry>>
          \/ \* entry.metadata() fails
             /\ metadata.exists
             /\ stats' = [stats EXCEPT ![self] = [scanned EXCEPT !.errors = @ + 1]]
             /\ ev' = Event("walk", self, path, "none", "meta_err")
             /\ hist' = WalkFailed(hist)
             /\ UNCHANGED <<indexed_paths, pending_metadata, store, retry>>
          \/ \* the lookup returns a row with the same size and mtime: skip
             /\ metadata.exists
             /\ row.present
             /\ Unchanged(path, row, metadata)
             /\ indexed_paths' = [indexed_paths EXCEPT ![self] =
                                     ObservedAfterSkip(@, path)]
             /\ stats' = [stats EXCEPT ![self] =
                             [scanned EXCEPT !.files_skipped = @ + 1]]
             /\ pending_metadata' =
                    IF SkipEnqueue(path, row.metadata_status)
                    THEN [pending_metadata EXCEPT ![self] = Append(@, path)]
                    ELSE pending_metadata
             /\ ev' = Event("walk", self, path, "hit", "skipped")
             /\ hist' = [hist EXCEPT !.walked = @ \cup {path},
                                      !.skipped = @ \cup {path}]
             /\ UNCHANGED <<store, retry>>
          \/ \* no row, a changed row, or a failed lookup: upsert
             /\ metadata.exists
             /\ \E lookup \in {"hit", "miss", "err"} :
                   /\ lookup = "hit" => row.present /\ ~Unchanged(path, row, metadata)
                   /\ lookup = "miss" => ~row.present
                   /\ \/ \* db::upsert_file succeeds
                         /\ store' = upsert_file(store, path, new_row)
                         /\ pending_metadata' =
                                IF IsFile(path) /\ new_row.metadata_status = STATUS_PENDING
                                THEN [pending_metadata EXCEPT ![self] = Append(@, path)]
                                ELSE pending_metadata
                         /\ indexed_paths' = [indexed_paths EXCEPT ![self] =
                                                 Append(@, path)]
                         /\ stats' = [stats EXCEPT ![self] =
                                         [scanned EXCEPT !.files_indexed = @ + 1]]
                         /\ ev' = Event("walk", self, path, lookup, "indexed")
                         /\ hist' = [(IF lookup = "err" THEN WalkFailed(hist)
                                       ELSE hist) EXCEPT !.walked = @ \cup {path}]
                         /\ retry' = retry \ {path}
                      \/ \* db::upsert_file fails
                         /\ stats' = [stats EXCEPT ![self] =
                                         [scanned EXCEPT !.errors = @ + 1]]
                         /\ ev' = Event("walk", self, path, lookup, "upsert_err")
                         /\ hist' = WalkFailed(hist)
                         /\ UNCHANGED <<indexed_paths, pending_metadata, store,
                                        retry>>
    /\ UNCHANGED <<indexVars, otherVars, is_running, lockW, result, fs, rootOk, fsChanges, sinceCall,
                   callDur, prevLong, sinceScan>>

\* db::remove_missing_files(&indexed_paths) after the walk
Cleanup(self) ==
    /\ pc[self] = "cleanup"
    /\ LET observed == SeqToSet(indexed_paths[self])
           removed == Cardinality(MissingPaths(store, observed))
           done == pending_metadata[self] = <<>>
       IN
       /\ pc' = [pc EXCEPT ![self] = IF done THEN "clear_acq" ELSE "phase2"]
       /\ result' = [result EXCEPT ![self] = IF done THEN "ok" ELSE @]
       /\ \/ /\ store' = remove_missing_files(store, observed)
             /\ stats' = [stats EXCEPT ![self].files_removed = removed]
             /\ hist' = [hist EXCEPT !.cleanup = "ok"]
             /\ retry' = retry \ MissingPaths(store, observed)
             /\ ev' = Event("cleanup", self, "", "none", "ok")
          \/ /\ stats' = Inc(stats, self, "errors")
             /\ hist' = [hist EXCEPT !.cleanup = "err"]
             /\ ev' = Event("cleanup", self, "", "none", "db_err")
             /\ UNCHANGED <<store, retry>>
    /\ UNCHANGED <<indexVars, otherVars, is_running, lockW, indexed_paths, pending_metadata, wi, fs,
                   rootOk, fsChanges, sinceCall, callDur, prevLong, sinceScan>>

\* the second pass takes the file queued last
Phase2_NewestFirst(self) ==
    /\ pc[self] = "phase2"
    /\ pending_metadata[self] # <<>>
    /\ LET path == pending_metadata[self][Len(pending_metadata[self])]
           rest == SubSeq(pending_metadata[self], 1, Len(pending_metadata[self]) - 1)
       IN
       /\ pending_metadata' = [pending_metadata EXCEPT ![self] = rest]
       /\ pc' = [pc EXCEPT ![self] = IF rest = <<>> THEN "clear_acq" ELSE "phase2"]
       /\ result' = [result EXCEPT ![self] = IF rest = <<>> THEN "ok" ELSE @]
       /\ \/ \* Ok(media_meta), and the update succeeds
             /\ is_likely_media_file(path)
             /\ \E m \in MediaMetas :
                   /\ store' = update_media_metadata(store, path, m.width, m.height,
                                   IF is_image(path) THEN None ELSE m.duration,
                                   STATUS_COMPLETE)
                   /\ ev' = [Event("phase2", self, path, "none", "ok") EXCEPT !.meta = m]
             /\ hist' = [hist EXCEPT !.probe[path] = "ok"]
             /\ retry' = retry \ {path}
             /\ UNCHANGED stats
          \/ \* Ok(media_meta), and the update fails
             /\ is_likely_media_file(path)
             /\ \E m \in MediaMetas :
                   ev' = [Event("phase2", self, path, "none", "ok_upd_err") EXCEPT !.meta = m]
             /\ stats' = Inc(stats, self, "errors")
             /\ hist' = [hist EXCEPT !.probe[path] = "ok_upd_err"]
             /\ UNCHANGED <<store, retry>>
          \/ \* Err(NotMediaFile), and the update succeeds
             /\ ~is_likely_media_file(path)
             /\ store' = update_media_metadata(store, path, None, None, None,
                                               NotMediaStatus)
             /\ ev' = Event("phase2", self, path, "none", "notmedia")
             /\ hist' = [hist EXCEPT !.probe[path] = "notmedia"]
             /\ retry' = retry \ {path}
             /\ UNCHANGED stats
          \/ \* Err(NotMediaFile), and the update fails
             /\ ~is_likely_media_file(path)
             /\ stats' = Inc(stats, self, "errors")
             /\ ev' = Event("phase2", self, path, "none", "notmedia_upd_err")
             /\ hist' = [hist EXCEPT !.probe[path] = "notmedia_upd_err"]
             /\ UNCHANGED <<store, retry>>
          \/ \* any other Err(e): the row is left as it is
             /\ is_likely_media_file(path)
             /\ \E e \in ExtractFailures :
                   ev' = Event("phase2", self, path, "none", e)
             /\ store' = OnExtractError(store, path)
             /\ stats' = Inc(stats, self, "errors")
             /\ hist' = [hist EXCEPT !.probe[path] = "failed"]
             /\ retry' = retry \cup {path}
    /\ UNCHANGED <<indexVars, otherVars, is_running, lockW, indexed_paths, wi, fs, rootOk, fsChanges,
                   sinceCall, callDur, prevLong, sinceScan>>

\* one iteration of the second pass: extract, then update_media_metadata
Phase2(self) ==
    /\ pc[self] = "phase2"
    /\ pending_metadata[self] # <<>>
    /\ LET path == Head(pending_metadata[self])
           rest == Tail(pending_metadata[self])
       IN
       /\ pending_metadata' = [pending_metadata EXCEPT ![self] = rest]
       /\ pc' = [pc EXCEPT ![self] = IF rest = <<>> THEN "clear_acq" ELSE "phase2"]
       /\ result' = [result EXCEPT ![self] = IF rest = <<>> THEN "ok" ELSE @]
       /\ \/ \* Ok(media_meta), and the update succeeds
             /\ is_likely_media_file(path)
             /\ \E m \in MediaMetas :
                   /\ store' = update_media_metadata(store, path, m.width, m.height,
                                   IF is_image(path) THEN None ELSE m.duration,
                                   STATUS_COMPLETE)
                   /\ ev' = [Event("phase2", self, path, "none", "ok") EXCEPT !.meta = m]
             /\ hist' = [hist EXCEPT !.probe[path] = "ok"]
             /\ retry' = retry \ {path}
             /\ UNCHANGED stats
          \/ \* Ok(media_meta), and the update fails
             /\ is_likely_media_file(path)
             /\ \E m \in MediaMetas :
                   ev' = [Event("phase2", self, path, "none", "ok_upd_err") EXCEPT !.meta = m]
             /\ stats' = Inc(stats, self, "errors")
             /\ hist' = [hist EXCEPT !.probe[path] = "ok_upd_err"]
             /\ UNCHANGED <<store, retry>>
          \/ \* Err(NotMediaFile), and the update succeeds
             /\ ~is_likely_media_file(path)
             /\ store' = update_media_metadata(store, path, None, None, None,
                                               NotMediaStatus)
             /\ ev' = Event("phase2", self, path, "none", "notmedia")
             /\ hist' = [hist EXCEPT !.probe[path] = "notmedia"]
             /\ retry' = retry \ {path}
             /\ UNCHANGED stats
          \/ \* Err(NotMediaFile), and the update fails
             /\ ~is_likely_media_file(path)
             /\ stats' = Inc(stats, self, "errors")
             /\ ev' = Event("phase2", self, path, "none", "notmedia_upd_err")
             /\ hist' = [hist EXCEPT !.probe[path] = "notmedia_upd_err"]
             /\ UNCHANGED <<store, retry>>
          \/ \* any other Err(e): the row is left as it is
             /\ is_likely_media_file(path)
             /\ \E e \in ExtractFailures :
                   ev' = Event("phase2", self, path, "none", e)
             /\ store' = OnExtractError(store, path)
             /\ stats' = Inc(stats, self, "errors")
             /\ hist' = [hist EXCEPT !.probe[path] = "failed"]
             /\ retry' = retry \cup {path}
    /\ UNCHANGED <<indexVars, otherVars, is_running, lockW, indexed_paths, wi, fs, rootOk, fsChanges,
                   sinceCall, callDur, prevLong, sinceScan>>

\* self.is_running.write().await after do_index returned
ClearAcquire(self) ==
    /\ pc[self] = "clear_acq"
    /\ lockW = NoProc
    /\ lockW' = self
    /\ pc' = [pc EXCEPT ![self] = "clear"]
    /\ ev' = NoEvent
    /\ hist' = NoHist
    /\ indexed_paths' = [indexed_paths EXCEPT ![self] = <<>>]
    /\ pending_metadata' = [pending_metadata EXCEPT ![self] = <<>>]
    /\ wi' = [wi EXCEPT ![self] = 0]
    /\ store' = EndOfRun(store)
    /\ UNCHANGED <<indexVars, otherVars, is_running, result, stats, fs, rootOk, fsChanges,
                   sinceCall, callDur, prevLong, retry, sinceScan>>

\* *running = false; the guard is dropped as run_full_index returns stats
Clear(self) ==
    /\ pc[self] = "clear"
    /\ lockW = self
    /\ is_running' = FALSE
    /\ lockW' = NoProc
    /\ Returned(self, result[self])
    /\ ev' = Event("clear", self, "", "none", result[self])
    /\ result' = [result EXCEPT ![self] = "none"]
    /\ stats' = [stats EXCEPT ![self] = DefaultStats]
    /\ UNCHANGED <<indexVars, otherVars, indexed_paths, pending_metadata, wi, fs, rootOk, store,
                   fsChanges, sinceCall, hist, retry, sinceScan>>

\* ------------------------------------------------- start_background_loop

\* the sleep is measured from the previous call, not from its return
LoopWake_FromCall ==
    /\ pc[Loop] = "sleep"
    /\ sinceCall >= Interval
    /\ pc' = [pc EXCEPT ![Loop] = "acquire"]
    /\ sinceCall' = 0
    /\ ev' = NoEvent
    /\ UNCHANGED <<indexVars, otherVars, is_running, lockW, result, stats, indexed_paths,
                   pending_metadata, wi, fs, rootOk, store, fsChanges, callDur,
                   prevLong, hist, retry, sinceScan>>

\* the sleep ends after interval; the loop calls run_full_index again
LoopWake ==
    /\ pc[Loop] = "sleep"
    /\ sinceCall = callDur + Interval
    /\ pc' = [pc EXCEPT ![Loop] = "acquire"]
    /\ sinceCall' = 0
    /\ ev' = NoEvent
    /\ UNCHANGED <<indexVars, otherVars, is_running, lockW, result, stats, indexed_paths,
                   pending_metadata, wi, fs, rootOk, store, fsChanges, callDur,
                   prevLong, hist, retry, sinceScan>>

\* one tick of the clock: a call of the loop lasts at most MaxScanTicks and
\* its sleep ends when interval has passed
Tick ==
    /\ IF pc[Loop] = "sleep"
       THEN sinceCall < callDur + Interval
       ELSE sinceCall < MaxScanTicks
    /\ sinceCall' = sinceCall + 1
    /\ ev' = NoEvent
    /\ UNCHANGED <<indexVars, otherVars, is_running, lockW, pc, result, stats, indexed_paths,
                   pending_metadata, wi, fs, rootOk, store, fsChanges, callDur,
                   prevLong, hist, retry, sinceScan>>

\* ------------------------------------------------------------ is_running

\* *self.is_running.read().await: waits only while a write guard is held
IsRunning ==
    /\ lockW = NoProc
    /\ ev' = Event("is_running", NoProc, "", "none",
                    IF is_running THEN "true" ELSE "false")
    /\ UNCHANGED <<indexVars, otherVars, is_running, lockW, pc, result, stats, indexed_paths,
                   pending_metadata, wi, fs, rootOk, store, fsChanges,
                   sinceCall, callDur, prevLong, hist, retry, sinceScan>>

\* ------------------------------------------------------- the environment

\* a file is rewritten (size and mtime change) or an entry is touched
FsModify ==
    /\ fsChanges < MaxFsChanges
    /\ \E p \in Paths :
          /\ fs[p].exists
          /\ \/ fs' = [fs EXCEPT ![p].modified = 3 - @]
             \/ /\ IsFile(p)
                /\ fs' = [fs EXCEPT ![p].size = 3 - @]
          /\ ev' = NoEvent
    /\ fsChanges' = fsChanges + 1
    /\ sinceScan' = "none"
    /\ hist' = [hist EXCEPT !.rescan = "none"]
    /\ UNCHANGED <<indexVars, otherVars, is_running, lockW, pc, result, stats, indexed_paths,
                   pending_metadata, wi, rootOk, store, sinceCall, callDur,
                   prevLong, retry>>

\* a file is deleted from disk, or created again
FsRemoveOrCreate ==
    /\ fsChanges < MaxFsChanges
    /\ \E p \in Paths :
          /\ IsFile(p)
          /\ fs' = [fs EXCEPT ![p] =
                       IF @.exists THEN NoEntry
                       ELSE [exists |-> TRUE, size |-> 1, modified |-> 1]]
          /\ ev' = NoEvent
    /\ fsChanges' = fsChanges + 1
    /\ sinceScan' = "none"
    /\ hist' = [hist EXCEPT !.rescan = "none"]
    /\ UNCHANGED <<indexVars, otherVars, is_running, lockW, pc, result, stats, indexed_paths,
                   pending_metadata, wi, rootOk, store, sinceCall, callDur,
                   prevLong, retry>>

\* the configured root becomes unreachable, or reachable again
FsRootToggle ==
    /\ rootOk' = ~rootOk
    /\ ev' = NoEvent
    /\ UNCHANGED <<indexVars, otherVars, is_running, lockW, pc, result, stats, indexed_paths,
                   pending_metadata, wi, fs, store, fsChanges, sinceCall, callDur,
                   prevLong, hist, retry, sinceScan>>

\* ------------------------------------------------------ metadata extractor
\* (backend/src/services/metadata.rs) and the second pass of do_index that
\* calls it, followed on one queued file

\* a duration string that is not a number
Unparsable == -2

\* str::parse::<f64>().ok()
parse_duration(dur) == IF dur = Unparsable THEN None ELSE dur

\* the streams the prober lists: FfprobeStream
StreamPool ==
    {[codec_type |-> "video", codec_name |-> "h264",
      width |-> wh[1], height |-> wh[2], duration |-> d] :
        wh \in {<<None, None>>, <<1, 2>>, <<2147483647, 2>>},
        d \in {None, Unparsable, 1, 2}}
    \cup {[codec_type |-> "audio", codec_name |-> "aac",
           width |-> None, height |-> None, duration |-> d] :
             d \in {None, Unparsable, 1, 2}}
    \cup {[codec_type |-> "data", codec_name |-> NoName,
           width |-> None, height |-> None, duration |-> None]}

\* FfprobeFormat, or none
FormatPool ==
    {[some |-> FALSE, format_name |-> NoName, duration |-> None]}
    \cup {[some |-> TRUE, format_name |-> "mov", duration |-> d] :
             d \in {None, Unparsable, 3}}

\* the lists of at most n streams
StreamLists(n) == UNION {[1..k -> StreamPool] : k \in 0..n}

\* what wait_with_output collects: a failed exit, output that is not the
\* expected JSON, or an FfprobeOutput
OutputPool ==
    {[status |-> "failure"], [status |-> "success", json |-> FALSE]}
    \cup {[status |-> "success", json |-> TRUE, format |-> f,
           streams |-> [some |-> TRUE, list |-> l]] :
             f \in FormatPool, l \in StreamLists(MaxStreams)}
    \cup {[status |-> "success", json |-> TRUE, format |-> f,
           streams |-> [some |-> FALSE, list |-> <<>>]] : f \in FormatPool}

\* extract: the metadata after the format was read
FromFormat(format) ==
    IF format.some
    THEN [DefaultMetadata EXCEPT
             !.format = format.format_name,
             !.duration = IF format.duration # None
                          THEN parse_duration(format.duration) ELSE @]
    ELSE DefaultMetadata

\* extract: an audio stream is used when metadata.duration.is_none()
AudioApplies_Always(metadata) == TRUE
AudioApplies(metadata) == metadata.duration = None

\* extract: the loop over the streams, which ends at the first video stream
RECURSIVE StreamLoop(_, _)
StreamLoop(streams, metadata) ==
    IF streams = <<>> THEN metadata
    ELSE LET stream == Head(streams)
         IN IF stream.codec_type = "video"
            THEN [metadata EXCEPT
                     !.width = stream.width,
                     !.height = stream.height,
                     !.codec = stream.codec_name,
                     !.duration = IF stream.duration # None
                                     /\ parse_duration(stream.duration) # None
                                  THEN parse_duration(stream.duration) ELSE @]
            ELSE IF stream.codec_type = "audio" /\ AudioApplies(metadata)
            THEN StreamLoop(Tail(streams),
                     [metadata EXCEPT
                         !.duration = IF stream.duration # None
                                      THEN parse_duration(stream.duration) ELSE @,
                         !.codec = IF @ = NoName THEN stream.codec_name ELSE @])
            ELSE StreamLoop(Tail(streams), metadata)

\* extract: the MediaMetadata built from an FfprobeOutput
MetadataOf(out) ==
    StreamLoop(IF out.streams.some THEN out.streams.list ELSE <<>>,
               FromFormat(out.format))

\* extract returns Err(kind), or Ok(meta) for kind "Ok"
Return(kind, meta) == [kind |-> kind, meta |-> meta]

\* `w as i32` of an Option<u32>: values above i32::MAX wrap by 2^32; the
\* prober prints a C int, so the widths of StreamPool end at i32::MAX
AsI32(w) == IF w = None THEN None
            ELSE IF w > 2147483647 THEN ((w - 2147483647) - 2147483647) - 2
            ELSE w

\* the metadata of the queued file on disk, the same in both runs
ProbeMeta == [exists |-> TRUE, size |-> 1, modified |-> 1]

\* the Child after its handle was dropped with kill_on_drop set: the kill
\* is sent and the process is reaped at once or left to the runtime
Dropped(c) == IF c = "running" THEN {"killed", "reaped"} ELSE {"reaped"}

\* pc values after extract has returned
AfterExtract == {"returned", "recorded", "update_failed", "left_pending", "rewalked"}

indexerVarsButStats ==
    <<is_running, lockW, pc, result, indexed_paths, pending_metadata, wi, fs,
      rootOk, store, fsChanges, sinceCall, callDur, prevLong, ev, hist, retry,
      sinceScan>>

\* the second pass takes a file the walk has written and queued
SecondPassNext ==
    /\ xpc = "idle"
    /\ \E p \in ProbeFiles :
          /\ xfile' = p
          /\ media_rows' = upsert_file([q \in {p} |-> NoRow], p,
                                       IndexedFileRow(p, ProbeMeta))
    /\ xpc' = "extract"
    /\ UNCHANGED <<child, child_opt, output, xret, requeued>>
    /\ UNCHANGED <<indexerVars, indexVars, serviceVars, filesVars>>

\* extract: if !Self::is_likely_media_file(path) { return Err(NotMediaFile) }
ExtensionCheck ==
    /\ xpc = "extract"
    /\ IF is_likely_media_file(xfile)
       THEN /\ xpc' = "spawn"
            /\ UNCHANGED xret
       ELSE /\ xpc' = "returned"
            /\ xret' = Return("NotMediaFile", DefaultMetadata)
    /\ UNCHANGED <<xfile, child, child_opt, output, media_rows, requeued>>
    /\ UNCHANGED <<indexerVars, indexVars, serviceVars, filesVars>>

\* extract: command.spawn(), whose error is returned
Spawn ==
    /\ xpc = "spawn"
    /\ \/ /\ child' = "running"
          /\ child_opt' = TRUE
          /\ xpc' = "select"
          /\ UNCHANGED xret
       \/ /\ \E e \in {"FfprobeNotFound", "ExecutionFailed"} :
                xret' = Return(e, DefaultMetadata)
          /\ xpc' = "returned"
          /\ UNCHANGED <<child, child_opt>>
    /\ UNCHANGED <<xfile, output, media_rows, requeued>>
    /\ UNCHANGED <<indexerVars, indexVars, serviceVars, filesVars>>

\* extract: the first poll of select! polls both branches; the first one runs
\* child_opt.take().unwrap().wait_with_output() and keeps the child
FirstPoll ==
    /\ xpc = "select"
    /\ child_opt' = FALSE
    /\ xpc' = "waiting"
    /\ UNCHANGED <<xfile, child, output, xret, media_rows, requeued>>
    /\ UNCHANGED <<indexerVars, indexVars, serviceVars, filesVars>>

\* the ffprobe process ends
ChildExits ==
    /\ child = "running"
    /\ child' = "exited"
    /\ UNCHANGED <<xfile, xpc, child_opt, output, xret, media_rows, requeued>>
    /\ UNCHANGED <<indexerVars, indexVars, serviceVars, filesVars>>

\* extract: wait_with_output is ready first
WaitReturns ==
    /\ xpc = "waiting"
    /\ \/ /\ child = "exited"
          /\ \E out \in OutputPool : output' = out
          /\ child' = "reaped"
          /\ xpc' = "parse"
          /\ UNCHANGED xret
       \/ /\ xret' = Return("ExecutionFailed", DefaultMetadata)
          /\ child' \in Dropped(child)
          /\ xpc' = "returned"
          /\ UNCHANGED output
    /\ UNCHANGED <<xfile, child_opt, media_rows, requeued>>
    /\ UNCHANGED <<indexerVars, indexVars, serviceVars, filesVars>>

\* extract: the sleep of FFPROBE_TIMEOUT is ready first: the futures of the
\* select! are dropped, then the branch kills and awaits the child that is
\* left in child_opt, and Timeout is returned
TimerFires ==
    /\ xpc = "waiting"
    /\ child \in {"running", "exited"}
    /\ IF child_opt
       THEN child' = "reaped"
       ELSE child' \in Dropped(child)
    /\ child_opt' = FALSE
    /\ xret' = Return("Timeout", DefaultMetadata)
    /\ xpc' = "returned"
    /\ UNCHANGED <<xfile, output, media_rows, requeued>>
    /\ UNCHANGED <<indexerVars, indexVars, serviceVars, filesVars>>

\* extract: the exit status is checked and the output parsed
Parse ==
    /\ xpc = "parse"
    /\ xret' = IF output.status # "success"
               THEN Return("ExecutionFailed", DefaultMetadata)
               ELSE IF ~output.json
               THEN Return("ParseError", DefaultMetadata)
               ELSE Return("Ok", MetadataOf(output))
    /\ xpc' = "returned"
    /\ UNCHANGED <<xfile, child, child_opt, output, media_rows, requeued>>
    /\ UNCHANGED <<indexerVars, indexVars, serviceVars, filesVars>>

\* do_index: the match on what extract returned
Record ==
    /\ xpc = "returned"
    /\ \/ \* Ok(media_meta)
          /\ xret.kind = "Ok"
          /\ \/ /\ media_rows' = update_media_metadata(media_rows, xfile,
                                     AsI32(xret.meta.width), AsI32(xret.meta.height),
                                     IF is_image(xfile) THEN None
                                     ELSE xret.meta.duration,
                                     STATUS_COMPLETE)
                /\ xpc' = "recorded"
                /\ UNCHANGED stats
             \/ /\ stats' = Inc(stats, Scanner, "errors")
                /\ xpc' = "update_failed"
                /\ UNCHANGED media_rows
       \/ \* Err(NotMediaFile)
          /\ xret.kind = "NotMediaFile"
          /\ \/ /\ media_rows' = update_media_metadata(media_rows, xfile,
                                     None, None, None, NotMediaStatus)
                /\ xpc' = "recorded"
                /\ UNCHANGED stats
             \/ /\ stats' = Inc(stats, Scanner, "errors")
                /\ xpc' = "update_failed"
                /\ UNCHANGED media_rows
       \/ \* Err(e)
          /\ xret.kind \in ExtractFailures
          /\ media_rows' = OnExtractError(media_rows, xfile)
          /\ stats' = Inc(stats, Scanner, "errors")
          /\ xpc' = "left_pending"
    /\ output' = NoOutput
    /\ UNCHANGED <<xfile, child, child_opt, xret, requeued>>
    /\ UNCHANGED <<indexerVarsButStats, indexVars, serviceVars, filesVars>>

\* do_index: the walk of a later run comes to the file, which has not changed
Rewalk ==
    /\ xpc \in {"recorded", "update_failed", "left_pending"}
    /\ LET row == get_file_by_path(media_rows, xfile)
           scanned == [stats[Scanner] EXCEPT !.files_scanned = @ + 1]
           new_row == IndexedFileRow(xfile, ProbeMeta)
       IN \/ \* the lookup returns the row, which matches: skip
             /\ Unchanged(xfile, row, ProbeMeta)
             /\ requeued' = IF SkipEnqueue(xfile, row.metadata_status)
                            THEN "yes" ELSE "no"
             /\ stats' = [stats EXCEPT ![Scanner] =
                             [scanned EXCEPT !.files_skipped = @ + 1]]
             /\ UNCHANGED media_rows
          \/ \* the lookup fails: upsert
             /\ media_rows' = upsert_file(media_rows, xfile, new_row)
             /\ requeued' = IF IsFile(xfile) /\ new_row.metadata_status = STATUS_PENDING
                            THEN "yes" ELSE "no"
             /\ stats' = [stats EXCEPT ![Scanner] =
                             [scanned EXCEPT !.files_indexed = @ + 1]]
          \/ \* the lookup and the upsert fail: continue
             /\ requeued' = "no"
             /\ stats' = [stats EXCEPT ![Scanner] =
                             [scanned EXCEPT !.errors = @ + 1]]
             /\ UNCHANGED media_rows
    /\ xpc' = "rewalked"
    /\ UNCHANGED <<xfile, child, child_opt, output, xret>>
    /\ UNCHANGED <<indexerVarsButStats, indexVars, serviceVars, filesVars>>

\* the runtime reaps a child whose handle was dropped
ReapOrphan ==
    /\ xpc \in AfterExtract
    /\ child \in {"killed", "exited"}
    /\ child' = "reaped"
    /\ UNCHANGED <<xfile, xpc, child_opt, output, xret, media_rows, requeued>>
    /\ UNCHANGED <<indexerVars, indexVars, serviceVars, filesVars>>

\* ----------------------------------------------------------- search index
\* (backend/src/services/search_index.rs)

\* strings are sequences of characters: "Acirc" is the precomposed letter
\* U+00C2, "circ" the combining circumflex U+0302, "oslash" the letter U+00F8
\* of two UTF-8 bytes, "alef" the letter U+05D0, "sheva" and "hsegol" the
\* points U+05B0 and U+05B1, "cgj" the combining grapheme joiner U+034F

\* the canonical decomposition of one character
nfd(c) == IF c = "Acirc" THEN <<"A", "circ">> ELSE <<c>>

\* the canonical combining class of a character
ccc(c) ==
    CASE c = "circ" -> 230
      [] c = "sheva" -> 10
      [] c = "hsegol" -> 11
      [] OTHER -> 0

\* is_combining_mark: the ranges U+0300..=U+036F, U+1AB0..=U+1AFF,
\* U+1DC0..=U+1DFF, U+20D0..=U+20FF, U+FE20..=U+FE2F
is_combining_mark(c) == c \in {"circ", "cgj"}

\* char::to_lowercase
to_lowercase(c) == IF c = "A" THEN <<"a">> ELSE <<c>>

RECURSIVE Decompose(_)
Decompose(s) == IF s = <<>> THEN <<>> ELSE nfd(Head(s)) \o Decompose(Tail(s))

\* the canonical ordering of NFD: neighbours that are both non-starters are
\* put in the order of their combining classes
RECURSIVE CanonicalOrder(_)
CanonicalOrder(s) ==
    LET unordered == {i \in 1..(Len(s) - 1) :
                         ccc(s[i]) > ccc(s[i + 1]) /\ ccc(s[i + 1]) > 0}
    IN IF unordered = {} THEN s
       ELSE LET i == CHOOSE x \in unordered : \A y \in unordered : x <= y
            IN CanonicalOrder([s EXCEPT ![i] = s[i + 1], ![i + 1] = s[i]])

\* str::nfd of a string
Nfd(s) == CanonicalOrder(Decompose(s))

RECURSIVE Lowercase(_)
Lowercase(s) == IF s = <<>> THEN <<>> ELSE to_lowercase(Head(s)) \o Lowercase(Tail(s))

\* normalize_path: NFD, strip combining marks, lowercase
normalize_path_KeepCase(s) ==
    SelectSeq(Nfd(s), LAMBDA c : ~is_combining_mark(c))
normalize_path(s) ==
    Lowercase(SelectSeq(Nfd(s), LAMBDA c : ~is_combining_mark(c)))

\* the UTF-8 bytes of one character
Utf8(c) ==
    CASE c = "/" -> <<47>>
      [] c = "&" -> <<38>>
      [] c = " " -> <<32>>
      [] c = "A" -> <<65>>
      [] c = "a" -> <<97>>
      [] c = "b" -> <<98>>
      [] c = "oslash" -> <<195, 184>>
      [] c = "Acirc" -> <<195, 130>>
      [] c = "circ" -> <<204, 130>>
      [] c = "alef" -> <<215, 144>>
      [] c = "sheva" -> <<214, 176>>
      [] c = "hsegol" -> <<214, 177>>
      [] c = "cgj" -> <<205, 143>>

\* String::as_bytes
RECURSIVE as_bytes(_)
as_bytes(s) == IF s = <<>> THEN <<>> ELSE Utf8(Head(s)) \o as_bytes(Tail(s))

\* SearchIndex::new
EmptyIndex == [ids |-> <<>>, offsets |-> <<>>, normalized_paths |-> <<>>,
               original_paths |-> <<>>]

\* the index held in the variables
TheIndex == [ids |-> ids, offsets |-> offsets,
             normalized_paths |-> normalized_paths,
             original_paths |-> original_paths]

\* the loop of build_from_entries: push id, offset, path and bytes, then
\* advance the offset by the number of bytes pushed
RECURSIVE BuildLoop(_, _, _)
BuildLoop(es, ix, offset) ==
    IF es = <<>> THEN ix
    ELSE LET norm_bytes == as_bytes(normalize_path(es[1][2]))
         IN BuildLoop(Tail(es),
                      [ids |-> Append(ix.ids, es[1][1]),
                       offsets |-> Append(ix.offsets, offset),
                       original_paths |-> Append(ix.original_paths, es[1][2]),
                       normalized_paths |-> ix.normalized_paths \o norm_bytes],
                      offset + Len(norm_bytes))

\* SearchIndex::build_from_entries
build_from_entries(es) == BuildLoop(es, EmptyIndex, 0)

\* SearchIndex::len
len(ix) == Len(ix.ids)

\* the end of the byte range of entry i (entries are numbered from 1)
RangeEnd(ix, i) ==
    IF i + 1 <= Len(ix.offsets) THEN ix.offsets[i + 1] ELSE Len(ix.normalized_paths)

\* SearchIndex::get_path_bytes
get_path_bytes(ix, i) == SubSeq(ix.normalized_paths, ix.offsets[i] + 1, RangeEnd(ix, i))

\* SearchIndex::add_entry: the new offset is the buffer length
add_entry_NoNormalize(ix, id, path) ==
    [ids |-> Append(ix.ids, id),
     offsets |-> Append(ix.offsets, Len(ix.normalized_paths)),
     original_paths |-> Append(ix.original_paths, path),
     normalized_paths |-> ix.normalized_paths \o as_bytes(path)]
add_entry(ix, id, path) ==
    [ids |-> Append(ix.ids, id),
     offsets |-> Append(ix.offsets, Len(ix.normalized_paths)),
     original_paths |-> Append(ix.original_paths, path),
     normalized_paths |-> ix.normalized_paths \o as_bytes(normalize_path(path))]

\* Iterator::position: the first index holding path, 0 for None
position_OrFirst(paths, path) ==
    IF \E i \in 1..Len(paths) : paths[i] = path
    THEN CHOOSE i \in 1..Len(paths) :
            /\ paths[i] = path
            /\ \A j \in 1..(i - 1) : paths[j] # path
    ELSE IF paths = <<>> THEN 0 ELSE 1
position(paths, path) ==
    IF \E i \in 1..Len(paths) : paths[i] = path
    THEN CHOOSE i \in 1..Len(paths) :
            /\ paths[i] = path
            /\ \A j \in 1..(i - 1) : paths[j] # path
    ELSE 0

\* Vec::remove
RemoveAt(v, i) == SubSeq(v, 1, i - 1) \o SubSeq(v, i + 1, Len(v))

\* Vec::splice(start..end, bytes); Vec::drain is a splice of nothing
Splice(v, start, end, bytes) == SubSeq(v, 1, start) \o bytes \o SubSeq(v, end + 1, Len(v))

\* the offsets of the entries from position `from` on are moved by diff
ShiftFrom(offs, from, diff) ==
    [i \in 1..Len(offs) |-> IF i >= from THEN offs[i] + diff ELSE offs[i]]

\* SearchIndex::remove_entry: the index afterwards and the value returned
remove_entry_NoShift(ix, path) ==
    LET idx == position(ix.original_paths, path)
    IN IF idx = 0 THEN [ret |-> FALSE, index |-> ix]
       ELSE [ret |-> TRUE,
             index |-> [ids |-> RemoveAt(ix.ids, idx),
                        original_paths |-> RemoveAt(ix.original_paths, idx),
                        offsets |-> RemoveAt(ix.offsets, idx),
                        normalized_paths |->
                            Splice(ix.normalized_paths, ix.offsets[idx],
                                   RangeEnd(ix, idx), <<>>)]]
remove_entry(ix, path) ==
    LET idx == position(ix.original_paths, path)
    IN IF idx = 0 THEN [ret |-> FALSE, index |-> ix]
       ELSE LET start == ix.offsets[idx]
                end == RangeEnd(ix, idx)
                removed_len == end - start
            IN [ret |-> TRUE,
                index |-> [ids |-> RemoveAt(ix.ids, idx),
                           original_paths |-> RemoveAt(ix.original_paths, idx),
                           offsets |-> ShiftFrom(RemoveAt(ix.offsets, idx), idx,
                                                 0 - removed_len),
                           normalized_paths |->
                               Splice(ix.normalized_paths, start, end, <<>>)]]

\* SearchIndex::rename_entry: the index afterwards and the value returned
rename_entry_NoShift(ix, old_path, new_path) ==
    LET idx == position(ix.original_paths, old_path)
    IN IF idx = 0 THEN [ret |-> FALSE, index |-> ix]
       ELSE [ret |-> TRUE,
             index |-> [ids |-> ix.ids,
                        original_paths |->
                            [ix.original_paths EXCEPT ![idx] = new_path],
                        offsets |-> ix.offsets,
                        normalized_paths |->
                            Splice(ix.normalized_paths, ix.offsets[idx],
                                   RangeEnd(ix, idx),
                                   as_bytes(normalize_path(new_path)))]]
rename_entry(ix, old_path, new_path) ==
    LET idx == position(ix.original_paths, old_path)
    IN IF idx = 0 THEN [ret |-> FALSE, index |-> ix]
       ELSE LET old_start == ix.offsets[idx]
                old_end == RangeEnd(ix, idx)
                new_bytes == as_bytes(normalize_path(new_path))
                len_diff == Len(new_bytes) - (old_end - old_start)
            IN [ret |-> TRUE,
                index |-> [ids |-> ix.ids,
                           original_paths |->
                               [ix.original_paths EXCEPT ![idx] = new_path],
                           offsets |-> ShiftFrom(ix.offsets, idx + 1, len_diff),
                           normalized_paths |->
                               Splice(ix.normalized_paths, old_start, old_end,
                                      new_bytes)]]

\* str::split_whitespace: the maximal runs of characters other than " "
RECURSIVE SplitLoop(_, _, _)
SplitLoop(q, cur, acc) ==
    IF q = <<>> THEN (IF cur = <<>> THEN acc ELSE Append(acc, cur))
    ELSE IF Head(q) = " "
         THEN SplitLoop(Tail(q), <<>>, IF cur = <<>> THEN acc ELSE Append(acc, cur))
         ELSE SplitLoop(Tail(q), Append(cur, Head(q)), acc)

split_whitespace(q) == SplitLoop(q, <<>>, <<>>)

\* needle occurs in hay between positions from + 1 and to
OccursAt(needle, hay, from, to) ==
    /\ to - from = Len(needle)
    /\ from >= 0 /\ to <= Len(hay)
    /\ SubSeq(hay, from + 1, to) = needle

\* memmem::Finder::find(..).is_some()
find(needle, hay) == \E i \in 0..Len(hay) : OccursAt(needle, hay, i, i + Len(needle))

\* the ids of the entries whose index is in keep, in entry order
RECURSIVE Collect(_, _, _)
Collect(ix, keep, i) ==
    IF i > len(ix) THEN <<>>
    ELSE (IF i \in keep THEN <<ix.ids[i]>> ELSE <<>>) \o Collect(ix, keep, i + 1)

\* SearchIndex::search_single_term
search_single_term_Prefix(ix, term) ==
    LET needle == as_bytes(normalize_path(term))
    IN IF needle = <<>> THEN <<>>
       ELSE Collect(ix, {i \in 1..len(ix) :
                            OccursAt(needle, get_path_bytes(ix, i), 0, Len(needle))}, 1)
search_single_term_EmptyNeedle(ix, term) ==
    LET needle == as_bytes(normalize_path(term))
    IN Collect(ix, {i \in 1..len(ix) : find(needle, get_path_bytes(ix, i))}, 1)
search_single_term(ix, term) ==
    LET needle == as_bytes(normalize_path(term))
    IN IF needle = <<>> THEN <<>>
       ELSE Collect(ix, {i \in 1..len(ix) : find(needle, get_path_bytes(ix, i))}, 1)

\* the patterns that end at position e of hay and start at or after pos
EndingAt(pats, hay, pos, e) ==
    {k \in 1..Len(pats) : e - Len(pats[k]) >= pos
                          /\ OccursAt(pats[k], hay, e - Len(pats[k]), e)}

\* AhoCorasick::find_iter with the default match kind: the search reports the
\* first position where a pattern ends, with the longest pattern ending
\* there (the first of equal patterns), and starts again after that match;
\* the result is the set of patterns reported
RECURSIVE find_iter(_, _, _)
find_iter(pats, hay, pos) ==
    LET ends == {e \in (pos + 1)..Len(hay) : EndingAt(pats, hay, pos, e) # {}}
    IN IF ends = {} THEN {}
       ELSE LET e == CHOOSE x \in ends : \A y \in ends : x <= y
                here == EndingAt(pats, hay, pos, e)
                k == CHOOSE x \in here :
                        \A y \in here :
                           \/ Len(pats[x]) > Len(pats[y])
                           \/ Len(pats[x]) = Len(pats[y]) /\ x <= y
            IN {k} \cup find_iter(pats, hay, e)

\* the terms of a query, normalized, as bytes
NormalizedTerms(terms) == [i \in 1..Len(terms) |-> as_bytes(normalize_path(terms[i]))]

\* SearchIndex::search_multi_term
\* an entry matches as soon as the first term is found in it
search_multi_term_FirstOnly(ix, terms) ==
    LET non_empty_terms == SelectSeq(NormalizedTerms(terms), LAMBDA t : t # <<>>)
        term_count == Len(non_empty_terms)
    IN IF non_empty_terms = <<>> THEN <<>>
       ELSE Collect(ix, {i \in 1..len(ix) :
                            1 \in find_iter(non_empty_terms, get_path_bytes(ix, i), 0)}, 1)
search_multi_term(ix, terms) ==
    LET non_empty_terms == SelectSeq(NormalizedTerms(terms), LAMBDA t : t # <<>>)
        term_count == Len(non_empty_terms)
    IN IF non_empty_terms = <<>> THEN <<>>
       ELSE Collect(ix, {i \in 1..len(ix) :
                            find_iter(non_empty_terms, get_path_bytes(ix, i), 0)
                               = 1..term_count}, 1)

\* SearchIndex::search
search(ix, query) ==
    LET terms == split_whitespace(query)
    IN IF Len(terms) = 0 THEN <<>>
       ELSE IF Len(terms) = 1 THEN search_single_term(ix, terms[1])
       ELSE search_multi_term(ix, terms)

\* the paths given to the index: "/ab", the same letters with a precomposed
\* and with a decomposed accented capital, a two-byte letter, and a path that
\* normalizes to the empty string
PathPool ==
    {<<"/", "a", "b">>,
     <<"/", "Acirc", "b", "&">>,
     <<"/", "A", "circ", "b">>,
     <<"/", "oslash">>,
     <<"circ">>}

\* the row ids given to the index
IdPool == {1, 2}

\* the queries: one token, tokens in other case, a special character, a token
\* that normalizes to nothing, no token, and several tokens that are apart,
\* overlap, are a prefix of one another or are repeated, and a token in which
\* a joiner keeps two points apart
QueryPool ==
    {<<"a", "b">>,
     <<" ", "A", "b", " ">>,
     <<"b", "&">>,
     <<"oslash">>,
     <<"circ">>,
     <<>>,
     <<" ">>,
     <<"/", " ", "b">>,
     <<"a", "b", " ", "b">>,
     <<"a", " ", "a", "b">>,
     <<"b", " ", "b">>,
     <<"b", " ", "circ">>,
     <<"alef", "hsegol", "cgj", "sheva">>}

\* the lists of (id, path) pairs of at most n pairs
EntryLists(n) ==
    UNION {[1..k -> IdPool \X PathPool] : k \in 0..n}

Call(o, p, q, r, ids_found) ==
    [op |-> o, path |-> p, query |-> q, ret |-> r, res |-> ids_found]

\* the index becomes ix
Becomes(ix) ==
    /\ ids' = ix.ids
    /\ offsets' = ix.offsets
    /\ normalized_paths' = ix.normalized_paths
    /\ original_paths' = ix.original_paths

\* the list of pairs without its first pair of path p
RECURSIVE WithoutFirst(_, _)
WithoutFirst(es, p) ==
    IF es = <<>> THEN <<>>
    ELSE IF es[1][2] = p THEN Tail(es)
    ELSE <<es[1]>> \o WithoutFirst(Tail(es), p)

\* the list of pairs with the path of its first pair of path p changed to q
RECURSIVE WithFirstRenamed(_, _, _)
WithFirstRenamed(es, p, q) ==
    IF es = <<>> THEN <<>>
    ELSE IF es[1][2] = p THEN <<<<es[1][1], q>>>> \o Tail(es)
    ELSE <<es[1]>> \o WithFirstRenamed(Tail(es), p, q)

\* a fresh index is built from a list of rows, as rebuild_from_db does
BuildFromEntries ==
    /\ iev = NoCall
    /\ \E es \in EntryLists(MaxEntries) :
          /\ Becomes(build_from_entries(es))
          /\ entries' = es
          /\ iev' = Call("build_from_entries", <<>>, <<>>, TRUE, <<>>)
    /\ UNCHANGED <<indexerVars, otherVars>>

\* SearchService::add_entry
AddEntry ==
    /\ len(TheIndex) < MaxEntries
    /\ \E id \in IdPool, path \in PathPool :
          /\ Becomes(add_entry(TheIndex, id, path))
          /\ entries' = Append(entries, <<id, path>>)
          /\ iev' = Call("add_entry", path, <<>>, TRUE, <<>>)
    /\ UNCHANGED <<indexerVars, otherVars>>

\* SearchService::remove_entry: a false return is only logged
RemoveEntry ==
    /\ \E path \in PathPool :
          LET r == remove_entry(TheIndex, path)
          IN /\ Becomes(r.index)
             /\ entries' = WithoutFirst(entries, path)
             /\ iev' = Call("remove_entry", path, <<>>, r.ret, <<>>)
    /\ UNCHANGED <<indexerVars, otherVars>>

\* SearchService::rename_entry: a false return is only logged
RenameEntry ==
    /\ \E old_path \in PathPool, new_path \in PathPool :
          LET r == rename_entry(TheIndex, old_path, new_path)
          IN /\ Becomes(r.index)
             /\ entries' = WithFirstRenamed(entries, old_path, new_path)
             /\ iev' = Call("rename_entry", old_path, <<>>, r.ret, <<>>)
    /\ UNCHANGED <<indexerVars, otherVars>>

\* SearchService::search
Search ==
    /\ \E q \in QueryPool :
          iev' = Call("search", <<>>, q, TRUE, search(TheIndex, q))
    /\ UNCHANGED <<ids, offsets, normalized_paths, original_paths, entries>>
    /\ UNCHANGED <<indexerVars, otherVars>>

\* queries of several tokens: three tokens that are apart, that overlap, that
\* differ in case only, tokens of which one or all normalize to nothing, and
\* tokens between runs of spaces
TokenQueries ==
    {<<"/", " ", "b", " ", "a">>,
     <<"a", " ", "a", "b", " ", "b">>,
     <<"A", " ", "b", " ", "a">>,
     <<"b", " ", "circ", " ", "/">>,
     <<"circ", " ", "cgj">>,
     <<"cgj", " ", "circ", " ", "circ">>,
     <<" ", " ">>,
     <<" ", "circ", " ", " ">>}

\* SearchService::search with one of these queries or of QueryPool
Query ==
    /\ \E q \in QueryPool \cup TokenQueries :
          iev' = Call("search", <<>>, q, TRUE, search(TheIndex, q))
    /\ UNCHANGED <<ids, offsets, normalized_paths, original_paths, entries>>
    /\ UNCHANGED <<indexerVars, otherVars>>

\* ------------------------------------------------- the width of the offsets

\* the number of values of an offset
Modulus32 == 2 ^ OffsetBits

\* a cast that stops at the largest value instead of wrapping
as_u32_Saturating(n) ==
    IF n >= Modulus32 THEN Modulus32 - 1 ELSE IF n < 0 THEN 0 ELSE n
\* `n as u32`: the low bits of n
as_u32(n) == n % Modulus32

\* the loop of build_from_entries with offset: u32. In a build with overflow
\* checks `offset += norm_bytes.len() as u32` panics when the sum passes the
\* width; in a build without them it wraps
RECURSIVE BuildLoop32(_, _, _, _)
BuildLoop32(es, ix, offset, overflow_checks) ==
    IF es = <<>> THEN [panic |-> FALSE, index |-> ix]
    ELSE LET norm_bytes == as_bytes(normalize_path(es[1][2]))
             sum == offset + as_u32(Len(norm_bytes))
         IN IF overflow_checks /\ sum >= Modulus32
            THEN [panic |-> TRUE, index |-> EmptyIndex]
            ELSE BuildLoop32(Tail(es),
                     [ids |-> Append(ix.ids, es[1][1]),
                      offsets |-> Append(ix.offsets, offset),
                      original_paths |-> Append(ix.original_paths, es[1][2]),
                      normalized_paths |-> ix.normalized_paths \o norm_bytes],
                     as_u32(sum), overflow_checks)

\* SearchIndex::build_from_entries, the width of the offsets kept
build_from_entries_u32(es, overflow_checks) ==
    BuildLoop32(es, EmptyIndex, 0, overflow_checks)

\* SearchIndex::add_entry: let offset = self.normalized_paths.len() as u32
add_entry_u32(ix, id, path) ==
    [ids |-> Append(ix.ids, id),
     offsets |-> Append(ix.offsets, as_u32(Len(ix.normalized_paths))),
     original_paths |-> Append(ix.original_paths, path),
     normalized_paths |-> ix.normalized_paths \o as_bytes(normalize_path(path))]

\* SearchIndex::rename_entry, the width of the offsets kept. When the range
\* read from the offsets is not a range of the buffer the call panics: at
\* `old_end - old_start` in a build with overflow checks, else at the splice,
\* which comes after the original path was replaced
rename_entry_u32(ix, old_path, new_path, overflow_checks) ==
    LET idx == position(ix.original_paths, old_path)
    IN IF idx = 0 THEN [ret |-> FALSE, panic |-> FALSE, index |-> ix]
       ELSE LET old_start == ix.offsets[idx]
                old_end == RangeEnd(ix, idx)
                new_bytes == as_bytes(normalize_path(new_path))
                len_diff == Len(new_bytes) - (old_end - old_start)
                renamed == [ix.original_paths EXCEPT ![idx] = new_path]
            IN IF old_end < old_start /\ overflow_checks
               THEN [ret |-> FALSE, panic |-> TRUE, index |-> ix]
               ELSE IF old_end < old_start \/ old_end > Len(ix.normalized_paths)
               THEN [ret |-> FALSE, panic |-> TRUE,
                     index |-> [ix EXCEPT !.original_paths = renamed]]
               ELSE [ret |-> TRUE, panic |-> FALSE,
                     index |-> [ids |-> ix.ids,
                                original_paths |-> renamed,
                                offsets |->
                                    [i \in 1..Len(ix.offsets) |->
                                        IF i >= idx + 1 /\ len_diff # 0
                                        THEN as_u32(ix.offsets[i] + len_diff)
                                        ELSE ix.offsets[i]],
                                normalized_paths |->
                                    Splice(ix.normalized_paths, old_start,
                                           old_end, new_bytes)]]

\* the paths of an index whose offsets are followed: of three bytes, of four
\* bytes and of none
OffsetPaths == {<<"/", "a", "b">>, <<"/", "Acirc", "b", "&">>, <<"circ">>}

\* the lists of at most n rows of these paths, numbered from 1
OffsetLists(n) ==
    {[i \in 1..Len(ps) |-> <<i, ps[i]>>] :
        ps \in UNION {[1..k -> OffsetPaths] : k \in 0..n}}

\* a call on the index panicked: the index is followed no further
Panic == Call("panic", <<>>, <<>>, FALSE, <<>>)

\* SearchIndex::build_from_entries in a build with or without overflow checks
Build32 ==
    /\ iev = NoCall
    /\ \E es \in OffsetLists(MaxOffsetEntries), overflow_checks \in BOOLEAN :
          LET r == build_from_entries_u32(es, overflow_checks)
          IN IF r.panic
             THEN /\ iev' = Panic
                  /\ UNCHANGED <<ids, offsets, normalized_paths, original_paths,
                                 entries>>
             ELSE /\ Becomes(r.index)
                  /\ entries' = es
                  /\ iev' = Call("build_from_entries", <<>>, <<>>, TRUE, <<>>)
    /\ UNCHANGED <<indexerVars, otherVars>>

\* SearchIndex::add_entry
Add32 ==
    /\ iev # Panic
    /\ len(TheIndex) < MaxOffsetEntries
    /\ \E path \in OffsetPaths :
          /\ Becomes(add_entry_u32(TheIndex, len(TheIndex) + 1, path))
          /\ entries' = Append(entries, <<len(TheIndex) + 1, path>>)
          /\ iev' = Call("add_entry", path, <<>>, TRUE, <<>>)
    /\ UNCHANGED <<indexerVars, otherVars>>

\* SearchIndex::rename_entry in a build with or without overflow checks
Rename32 ==
    /\ iev # Panic
    /\ \E old_path \in OffsetPaths, new_path \in OffsetPaths,
          overflow_checks \in BOOLEAN :
          LET r == rename_entry_u32(TheIndex, old_path, new_path, overflow_checks)
          IN /\ Becomes(r.index)
             /\ entries' = IF r.ret THEN WithFirstRenamed(entries, old_path, new_path)
                           ELSE entries
             /\ iev' = IF r.panic THEN Panic
                       ELSE Call("rename_entry", old_path, <<>>, r.ret, <<>>)
    /\ UNCHANGED <<indexerVars, otherVars>>

\* ------------------------------------------------------------ file requests
\* (backend/src/api/files.rs, services/filesystem.rs, db/queries.rs): rename,
\* move and delete over a small tree; a path is a sequence of characters

\* an entry on disk
Ent(path, d) == [path |-> path, is_dir |-> d]

\* the trees under the root: a directory /a beside a directory /A, and a
\* file /a beside a directory /A
FileTrees ==
    {{Ent(<<"/", "a">>, TRUE), Ent(<<"/", "a", "/", "g">>, FALSE),
      Ent(<<"/", "A">>, TRUE), Ent(<<"/", "A", "/", "g">>, FALSE)},
     {Ent(<<"/", "a">>, FALSE),
      Ent(<<"/", "A">>, TRUE), Ent(<<"/", "A", "/", "g">>, FALSE)}}

\* the paths, names and targets of the requests
RequestPaths ==
    {<<"/">>, <<"/", "a">>, <<"/", "A">>, <<"/", "a", "/", "g">>,
     <<"/", "A", "/", "g">>}
NewNames == {<<"b">>, <<"g">>, <<".", ".">>}
MoveTargets == {<<"/">>, <<"/", "A">>, <<"/", "b">>}

\* the position of the last '/' of a path
LastSlash(path) == CHOOSE i \in 1..Len(path) :
                      path[i] = "/" /\ \A j \in (i + 1)..Len(path) : path[j] # "/"

\* Path::file_name and Path::parent
file_name(path) == SubSeq(path, LastSlash(path) + 1, Len(path))
parent(path) == IF LastSlash(path) = 1 THEN <<"/">>
                ELSE SubSeq(path, 1, LastSlash(path) - 1)

\* Path::join
join(dir, name) == IF dir = <<"/">> THEN <<"/">> \o name ELSE dir \o <<"/">> \o name

\* s starts with the characters of prefix
StartsWith(s, prefix) ==
    Len(s) >= Len(prefix) /\ SubSeq(s, 1, Len(prefix)) = prefix

\* the entries at and below path
Subtree(d, path) ==
    {e \in d : e.path = path \/ StartsWith(e.path, path \o <<"/">>)}

Exists(d, path) == path = <<"/">> \/ \E e \in d : e.path = path
IsDir(d, path) == path = <<"/">> \/ \E e \in d : e.path = path /\ e.is_dir

\* std::fs::rename: the subtree of src replaces dst, which may be a file
\* under a file or an empty directory under a directory
fs_rename(d, src, dst) ==
    IF ~Exists(d, src) \/ ~IsDir(d, parent(dst))
       \/ (src # dst /\ StartsWith(dst, src \o <<"/">>))
    THEN [ok |-> FALSE, disk |-> d]
    ELSE IF src = dst THEN [ok |-> TRUE, disk |-> d]
    ELSE IF Exists(d, dst)
            /\ (IsDir(d, src) # IsDir(d, dst)
                \/ (IsDir(d, dst) /\ Subtree(d, dst) # {Ent(dst, TRUE)}))
    THEN [ok |-> FALSE, disk |-> d]
    ELSE [ok |-> TRUE,
          disk |-> ((d \ Subtree(d, src)) \ Subtree(d, dst))
                   \cup {[e EXCEPT !.path = dst \o SubSeq(@, Len(src) + 1, Len(@))] :
                            e \in Subtree(d, src)}]

\* the rows a full scan writes for a tree: the root, then the entries
RowsOf(tree) ==
    LET order == <<<<"/">>, <<"/", "A">>, <<"/", "A", "/", "g">>, <<"/", "a">>,
                   <<"/", "a", "/", "g">>>>
    IN {[id |-> i, path |-> order[i],
         name |-> IF order[i] = <<"/">> THEN <<>> ELSE file_name(order[i])] :
          i \in {j \in 1..Len(order) : Exists(tree, order[j])}}

\* SQLite folds the case of ASCII letters in LIKE
ascii_fold(c) == IF c = "A" THEN "a" ELSE c

\* SQLite: s LIKE pat, with % for any run of characters and _ for any one
RECURSIVE Like(_, _)
Like(s, pat) ==
    IF pat = <<>> THEN s = <<>>
    ELSE IF Head(pat) = "%"
    THEN Like(s, Tail(pat)) \/ (s # <<>> /\ Like(Tail(s), pat))
    ELSE /\ s # <<>>
         /\ Head(pat) = "_" \/ ascii_fold(Head(s)) = ascii_fold(Head(pat))
         /\ Like(Tail(s), Tail(pat))

\* str::trim_end_matches('/')
RECURSIVE trim_end_matches(_)
trim_end_matches(s) ==
    IF s # <<>> /\ s[Len(s)] = "/" THEN trim_end_matches(SubSeq(s, 1, Len(s) - 1))
    ELSE s

\* format!("{}/%", old_path.trim_end_matches('/'))
child_pattern(old_path) == trim_end_matches(old_path) \o <<"/", "%">>

\* SQLite: substr(path, n), the characters from the n-th on
substr(path, n) == SubSeq(path, n, Len(path))

\* rename_path, first UPDATE: ... SET path = ?, name = ? WHERE path = ?
UpdateEntry(tbl, old_path, new_path, new_name) ==
    {IF r.path = old_path THEN [r EXCEPT !.path = new_path, !.name = new_name]
     ELSE r : r \in tbl}

\* rename_path, second UPDATE, row by row in rowid order; path is UNIQUE
RECURSIVE UpdateChildren(_, _, _, _)
UpdateChildren(tbl, todo, old_path, new_path) ==
    IF todo = {} THEN [ok |-> TRUE, table |-> tbl]
    ELSE LET i == CHOOSE k \in todo : \A j \in todo : k <= j
             r == CHOOSE x \in tbl : x.id = i
             path == new_path \o substr(r.path, Len(old_path) + 1)
         IN IF \E x \in tbl : x.id # i /\ x.path = path
            THEN [ok |-> FALSE, table |-> tbl]
            ELSE UpdateChildren((tbl \ {r}) \cup {[r EXCEPT !.path = path]},
                                todo \ {i}, old_path, new_path)

\* db::rename_path: both statements in one transaction
rename_path(tbl, old_path, new_path, new_name) ==
    LET hit == {r \in tbl : r.path = old_path}
        first == UpdateEntry(tbl, old_path, new_path, new_name)
        todo == {r.id : r \in {x \in first : Like(x.path, child_pattern(old_path))}}
        second == UpdateChildren(first, todo, old_path, new_path)
    IN IF hit # {} /\ \E x \in tbl : x.path = new_path /\ x.path # old_path
       THEN [ok |-> FALSE, affected |-> 0, table |-> tbl]
       ELSE IF ~second.ok THEN [ok |-> FALSE, affected |-> 0, table |-> tbl]
       ELSE [ok |-> TRUE,
             affected |-> Cardinality(hit) + Cardinality(todo),
             table |-> second.table]

\* db::delete_by_path: DELETE ... WHERE path = ? OR path LIKE ?, as
\* delete_by_paths does for each of its paths
delete_by_path(tbl, path) ==
    {r \in tbl : ~(r.path = path \/ Like(r.path, child_pattern(path)))}

\* the request with its outcome
Request(o, path, to, new_name, overwrite, resp, performed, new_path, db, affected) ==
    [op |-> o, count |-> fev.count + 1, path |-> path, to |-> to,
     new_name |-> new_name, overwrite |-> overwrite, resp |-> resp,
     performed |-> performed, new_path |-> new_path, db |-> db,
     affected |-> affected, old_disk |-> disk, old_table |-> table]

\* the store follows the filesystem: rename_path is called and its error,
\* if any, is the response
RenameRows(o, path, to, new_name, overwrite, new_path) ==
    LET r == rename_path(table, path, new_path, new_name)
    IN /\ table' = r.table
       /\ fev' = Request(o, path, to, new_name, overwrite,
                         IF r.ok THEN "success" ELSE "error", TRUE, new_path,
                         IF r.ok THEN "ok" ELSE "err", r.affected)

\* the request fails before the store is touched
Fails(o, path, to, new_name, overwrite) ==
    /\ fev' = Request(o, path, to, new_name, overwrite, "error", FALSE, <<>>,
                      "none", 0)
    /\ UNCHANGED table

\* a tree is put under the root, and a full scan has indexed it or not
Populate ==
    /\ fev.count = 0
    /\ disk = {}
    /\ \E tree \in FileTrees, scanned \in BOOLEAN :
          /\ disk' = tree
          /\ table' = IF scanned THEN RowsOf(tree) ELSE {}
    /\ UNCHANGED fev
    /\ UNCHANGED <<indexerVars, indexVars, probeVars, serviceVars>>

\* api::files::rename
Rename ==
    /\ disk # {}
    /\ fev.count < MaxRequests
    /\ \E path \in RequestPaths, new_name \in NewNames :
          LET new_path == join(parent(path), new_name)
              moved == fs_rename(disk, path, new_path)
          IN IF new_name = <<".", ".">> \/ ~Exists(disk, path) \/ path = <<"/">>
                \/ ~moved.ok
             THEN /\ Fails("rename", path, <<>>, new_name, FALSE)
                  /\ UNCHANGED disk
             ELSE /\ disk' = moved.disk
                  /\ RenameRows("rename", path, <<>>, new_name, FALSE, new_path)
    /\ UNCHANGED <<indexerVars, indexVars, probeVars, serviceVars>>

\* FilesystemService::build_destination_path: into the target when it is a
\* directory, the target itself otherwise
build_destination_path(d, target, name) ==
    IF Exists(d, target) /\ IsDir(d, target) THEN join(target, name) ELSE target

\* api::files::move_entry
Move ==
    /\ disk # {}
    /\ fev.count < MaxRequests
    /\ \E from \in RequestPaths, to \in MoveTargets, overwrite \in BOOLEAN :
          LET dest_path == build_destination_path(disk, to, file_name(from))
              cleared == disk \ Subtree(disk, dest_path)
              moved == fs_rename(cleared, from, dest_path)
          IN IF ~Exists(disk, from) \/ from = <<"/">> \/ to = <<"/">>
                \/ (IsDir(disk, from)
                     /\ (dest_path = from \/ StartsWith(dest_path, from \o <<"/">>)))
             THEN /\ Fails("move", from, to, <<>>, overwrite)
                  /\ UNCHANGED disk
             ELSE IF Exists(disk, dest_path) /\ ~overwrite
             THEN /\ fev' = Request("move", from, to, <<>>, overwrite, "success",
                                    FALSE, dest_path, "none", 0)
                  /\ UNCHANGED <<disk, table>>
             ELSE IF ~moved.ok
             THEN /\ Fails("move", from, to, <<>>, overwrite)
                  /\ disk' = cleared
             ELSE /\ disk' = moved.disk
                  /\ RenameRows("move", from, to, file_name(dest_path), overwrite,
                                dest_path)
    /\ UNCHANGED <<indexerVars, indexVars, probeVars, serviceVars>>

\* api::files::delete
Delete ==
    /\ disk # {}
    /\ fev.count < MaxRequests
    /\ \E path \in RequestPaths :
          IF ~Exists(disk, path) \/ path = <<"/">>
          THEN /\ Fails("delete", path, <<>>, <<>>, FALSE)
               /\ UNCHANGED disk
          ELSE /\ disk' = disk \ Subtree(disk, path)
               /\ table' = delete_by_path(table, path)
               /\ fev' = Request("delete", path, <<>>, <<>>, FALSE, "success",
                                 TRUE, <<>>, "ok", 0)
    /\ UNCHANGED <<indexerVars, indexVars, probeVars, serviceVars>>

\* ------------------------------------------------------------ SearchService
\* (backend/src/services/search.rs): the index behind a tokio RwLock, used by
\* three clients at once

\* the paths the clients pass: they normalize to 3 and to 4 bytes
ServicePaths == {<<"/", "a", "b">>, <<"/", "Acirc", "b", "&">>}

\* the row id of a path
IdOf(path) == IF path = <<"/", "a", "b">> THEN 1 ELSE 2

\* the query the clients search for
ServiceQueries == {<<"b", "&">>}

\* what SELECT id, path FROM indexed_files returns to a rebuild
RowLists ==
    {<<>>,
     <<<<1, <<"/", "a", "b">>>>>>,
     <<<<2, <<"/", "Acirc", "b", "&">>>>, <<1, <<"/", "a", "b">>>>>>}

\* SearchIndex::find_id_by_path: Some(id) as <<id>>, None as <<>>
find_id_by_path(ix, path) ==
    LET idx == position(ix.original_paths, path)
    IN IF idx = 0 THEN <<>> ELSE <<ix.ids[idx]>>

\* the calls that take the read guard
ReadCalls ==
    {Call("search", <<>>, q, FALSE, <<>>) : q \in ServiceQueries}
    \cup {Call("index_size", <<>>, <<>>, FALSE, <<>>)}
    \cup {Call("find_id_by_path", p, <<>>, FALSE, <<>>) : p \in ServicePaths}

\* the calls that take the write guard to change the index in place: the new
\* path of a rename is passed in the query field
WriteCalls ==
    {Call("add_entry", p, <<>>, FALSE, <<>>) : p \in ServicePaths}
    \cup {Call("remove_entry", p, <<>>, FALSE, <<>>) : p \in ServicePaths}
    \cup {Call("rename_entry", p, q, FALSE, <<>>) : p \in ServicePaths, q \in ServicePaths}

\* what a read call returns on index ix
ReadResult(call, ix) ==
    CASE call.op = "search" -> search(ix, call.query)
      [] call.op = "index_size" -> <<len(ix)>>
      [] call.op = "find_id_by_path" -> find_id_by_path(ix, call.path)
      [] OTHER -> <<>>

\* RwLock::read is granted while no write guard is held
CanRead_NoWait(lock) == TRUE
CanRead(lock) == lock.writer = NoClient

\* RwLock::write is granted while no guard is held
CanWrite(lock) == lock.writer = NoClient /\ lock.readers = {}

\* the mutation finds its entry (add_entry always goes on)
Found(call, ix) ==
    call.op = "add_entry" \/ position(ix.original_paths, call.path) # 0

\* the index after the first statements of a mutation: add_entry has pushed
\* id, offset and path; remove_entry has removed the entry from every vector
\* and drained its bytes; rename_entry has stored the path and spliced the
\* bytes
MutationBegun(call, ix) ==
    LET idx == position(ix.original_paths, call.path)
    IN CASE call.op = "add_entry" ->
              [ix EXCEPT !.ids = Append(@, IdOf(call.path)),
                         !.offsets = Append(@, Len(ix.normalized_paths)),
                         !.original_paths = Append(@, call.path)]
         [] call.op = "remove_entry" ->
              [ids |-> RemoveAt(ix.ids, idx),
               original_paths |-> RemoveAt(ix.original_paths, idx),
               offsets |-> RemoveAt(ix.offsets, idx),
               normalized_paths |->
                   Splice(ix.normalized_paths, ix.offsets[idx],
                          RangeEnd(ix, idx), <<>>)]
         [] OTHER ->
              [ix EXCEPT !.original_paths[idx] = call.query,
                         !.normalized_paths =
                             Splice(@, ix.offsets[idx], RangeEnd(ix, idx),
                                    as_bytes(normalize_path(call.query)))]

\* the locals the rest of the mutation uses: idx, and removed_len or len_diff
LocalsOf(call, ix) ==
    LET idx == position(ix.original_paths, call.path)
    IN CASE call.op = "add_entry" -> NoMutation
         [] call.op = "remove_entry" ->
              [idx |-> idx, diff |-> RangeEnd(ix, idx) - ix.offsets[idx]]
         [] OTHER ->
              [idx |-> idx,
               diff |-> Len(as_bytes(normalize_path(call.query)))
                        - (RangeEnd(ix, idx) - ix.offsets[idx])]

\* the index after the last statements of a mutation: add_entry extends the
\* buffer; remove_entry and rename_entry move the offsets that follow
MutationDone(call, ix, locals) ==
    CASE call.op = "add_entry" ->
           [ix EXCEPT !.normalized_paths =
                          @ \o as_bytes(normalize_path(call.path))]
      [] call.op = "remove_entry" ->
           [ix EXCEPT !.offsets = ShiftFrom(@, locals.idx, 0 - locals.diff)]
      [] OTHER ->
           [ix EXCEPT !.offsets = ShiftFrom(@, locals.idx + 1, locals.diff)]

\* the pairs the index amounts to after the mutation
EntriesAfter(call, es) ==
    CASE call.op = "add_entry" -> Append(es, <<IdOf(call.path), call.path>>)
      [] call.op = "remove_entry" -> WithoutFirst(es, call.path)
      [] OTHER -> WithFirstRenamed(es, call.path, call.query)

\* search, index_size, find_id_by_path: self.index.read().await
AcquireRead(c) ==
    /\ cpc[c] = "idle"
    /\ c # Rebuilder
    /\ CanRead(rwlock)
    /\ \E call \in ReadCalls : cop' = (c :> call) @@ cop
    /\ rwlock' = [rwlock EXCEPT !.readers = @ \cup {c}]
    /\ cpc' = [cpc EXCEPT ![c] = "reading"]
    /\ UNCHANGED <<new_index, mutation, indexVars>>
    /\ UNCHANGED <<indexerVars, probeVars, filesVars>>

\* search, index_size, find_id_by_path: the call on the index returns and
\* the guard is dropped
ReadReturns(c) ==
    /\ cpc[c] = "reading"
    /\ cop' = [cop EXCEPT ![c].ret = TRUE, ![c].res = ReadResult(cop[c], TheIndex)]
    /\ rwlock' = [rwlock EXCEPT !.readers = @ \ {c}]
    /\ cpc' = [cpc EXCEPT ![c] = "idle"]
    /\ UNCHANGED <<new_index, mutation, indexVars>>
    /\ UNCHANGED <<indexerVars, probeVars, filesVars>>

\* add_entry, remove_entry, rename_entry: self.index.write().await
AcquireWrite(c) ==
    /\ cpc[c] = "idle"
    /\ c = Writer
    /\ CanWrite(rwlock)
    /\ \E call \in WriteCalls :
          /\ call.op = "add_entry" => len(TheIndex) < MaxEntries
          /\ cop' = (c :> call) @@ cop
    /\ rwlock' = [rwlock EXCEPT !.writer = c]
    /\ cpc' = [cpc EXCEPT ![c] = "writing"]
    /\ UNCHANGED <<new_index, mutation, indexVars>>
    /\ UNCHANGED <<indexerVars, probeVars, filesVars>>

\* the mutation starts: it returns false when its entry is not found, and
\* changes the vectors otherwise
MutateFirst(c) ==
    /\ cpc[c] = "writing"
    /\ IF Found(cop[c], TheIndex)
       THEN /\ Becomes(MutationBegun(cop[c], TheIndex))
            /\ mutation' = LocalsOf(cop[c], TheIndex)
            /\ cpc' = [cpc EXCEPT ![c] = "mutating"]
            /\ UNCHANGED <<rwlock, cop>>
       ELSE /\ cop' = [cop EXCEPT ![c].ret = FALSE]
            /\ rwlock' = [rwlock EXCEPT !.writer = NoClient]
            /\ cpc' = [cpc EXCEPT ![c] = "idle"]
            /\ UNCHANGED <<ids, offsets, normalized_paths, original_paths, mutation>>
    /\ UNCHANGED <<new_index, entries, iev>>
    /\ UNCHANGED <<indexerVars, probeVars, filesVars>>

\* the mutation ends and the guard is dropped
MutateLast(c) ==
    /\ cpc[c] = "mutating"
    /\ Becomes(MutationDone(cop[c], TheIndex, mutation))
    /\ entries' = EntriesAfter(cop[c], entries)
    /\ mutation' = NoMutation
    /\ cop' = [cop EXCEPT ![c].ret = TRUE]
    /\ rwlock' = [rwlock EXCEPT !.writer = NoClient]
    /\ cpc' = [cpc EXCEPT ![c] = "idle"]
    /\ UNCHANGED <<new_index, iev>>
    /\ UNCHANGED <<indexerVars, probeVars, filesVars>>

\* rebuild_from_db: fetch_all returns the rows
Fetch(c) ==
    /\ cpc[c] = "idle"
    /\ c = Rebuilder
    /\ \E rows \in RowLists : new_index' = [rows |-> rows]
    /\ cop' = (c :> Call("rebuild_from_db", <<>>, <<>>, FALSE, <<>>)) @@ cop
    /\ cpc' = [cpc EXCEPT ![c] = "fetched"]
    /\ UNCHANGED <<rwlock, mutation, indexVars>>
    /\ UNCHANGED <<indexerVars, probeVars, filesVars>>

\* rebuild_from_db: the new index is built without the lock
Build(c) ==
    /\ cpc[c] = "fetched"
    /\ new_index' = [rows |-> new_index.rows,
                     index |-> build_from_entries(new_index.rows)]
    /\ cpc' = [cpc EXCEPT ![c] = "built"]
    /\ UNCHANGED <<rwlock, cop, mutation, indexVars>>
    /\ UNCHANGED <<indexerVars, probeVars, filesVars>>

\* rebuild_from_db: self.index.write().await
AcquireSwap(c) ==
    /\ cpc[c] = "built"
    /\ CanWrite(rwlock)
    /\ rwlock' = [rwlock EXCEPT !.writer = c]
    /\ cpc' = [cpc EXCEPT ![c] = "swapping"]
    /\ UNCHANGED <<cop, new_index, mutation, indexVars>>
    /\ UNCHANGED <<indexerVars, probeVars, filesVars>>

\* the swap leaves an index that was changed in place as it is
Swap_KeepsMutated(c) ==
    /\ cpc[c] = "swapping"
    /\ Becomes(IF entries = <<>> THEN new_index.index ELSE TheIndex)
    /\ entries' = IF entries = <<>> THEN new_index.rows ELSE entries
    /\ new_index' = NoRebuild
    /\ cop' = [cop EXCEPT ![c].ret = TRUE]
    /\ rwlock' = [rwlock EXCEPT !.writer = NoClient]
    /\ cpc' = [cpc EXCEPT ![c] = "idle"]
    /\ UNCHANGED <<mutation, iev>>
    /\ UNCHANGED <<indexerVars, probeVars, filesVars>>
\* rebuild_from_db: *index = new_index, and the guard is dropped
Swap(c) ==
    /\ cpc[c] = "swapping"
    /\ Becomes(new_index.index)
    /\ entries' = new_index.rows
    /\ new_index' = NoRebuild
    /\ cop' = [cop EXCEPT ![c].ret = TRUE]
    /\ rwlock' = [rwlock EXCEPT !.writer = NoClient]
    /\ cpc' = [cpc EXCEPT ![c] = "idle"]
    /\ UNCHANGED <<mutation, iev>>
    /\ UNCHANGED <<indexerVars, probeVars, filesVars>>

\* ---------------------------------------------------------- specification

Run(self) ==
    \/ Trigger(self)
    \/ Acquire(self)
    \/ CheckAndSet(self)
    \/ Vacuum(self)
    \/ Canonicalize(self)
    \/ WalkEntry(self)
    \/ Cleanup(self)
    \/ Phase2(self)
    \/ ClearAcquire(self)
    \/ Clear(self)

Next ==
    \/ Run(Scanner)
    \/ FsModify
    \/ FsRemoveOrCreate
    \/ FsRootToggle

Spec == Init /\ [][Next]_vars

NextFlight ==
    \/ \E self \in Procs : Run(self)
    \/ LoopWake
    \/ Tick
    \/ IsRunning
    \/ FsRootToggle

SpecFlight == InitFlight /\ [][NextFlight]_vars

\* the calls made on the search index
NextIndex ==
    \/ BuildFromEntries
    \/ AddEntry
    \/ RemoveEntry
    \/ RenameEntry
    \/ Search

SpecIndex == Init /\ [][NextIndex]_vars

\* an index that was built and added to is queried
NextQuery ==
    \/ BuildFromEntries
    \/ AddEntry
    \/ Query

SpecQuery == Init /\ [][NextQuery]_vars

\* an index is built, added to and renamed in, its offsets kept to their
\* width
NextOffsets ==
    \/ Build32
    \/ Add32
    \/ Rename32

SpecOffsets == Init /\ [][NextOffsets]_vars

\* spawned runs under the scheduling of the runtime: a spawned task is polled
\* until it returns, every await of run_full_index returns (the tree is
\* finite and the extractor is bounded by its timeout), and the queue of
\* tokio's RwLock is fair, so a task that waits for the write guard gets it
NextLive ==
    \/ \E self \in Manual : Run(self)
    \/ FsRootToggle

RunFairness ==
    \A self \in Manual :
        /\ SF_vars(Acquire(self))
        /\ SF_vars(ClearAcquire(self))
        /\ WF_vars(CheckAndSet(self))
        /\ WF_vars(Vacuum(self))
        /\ WF_vars(Canonicalize(self))
        /\ WF_vars(WalkEntry(self))
        /\ WF_vars(Cleanup(self))
        /\ WF_vars(Phase2(self))
        /\ WF_vars(Clear(self))

SpecLive == InitLive /\ [][NextLive]_vars /\ RunFairness
\* the second pass on one queued file, and the walk that comes to it next
NextProbe ==
    \/ SecondPassNext
    \/ ExtensionCheck
    \/ Spawn
    \/ FirstPoll
    \/ ChildExits
    \/ WaitReturns
    \/ TimerFires
    \/ Parse
    \/ Record
    \/ Rewalk
    \/ ReapOrphan

SpecProbe == Init /\ [][NextProbe]_vars

\* the clients of the search service
NextService ==
    \/ \E c \in Clients : AcquireRead(c)
    \/ \E c \in Clients : ReadReturns(c)
    \/ \E c \in Clients : AcquireWrite(c)
    \/ \E c \in Clients : MutateFirst(c)
    \/ \E c \in Clients : MutateLast(c)
    \/ \E c \in Clients : Fetch(c)
    \/ \E c \in Clients : Build(c)
    \/ \E c \in Clients : AcquireSwap(c)
    \/ \E c \in Clients : Swap(c)

SpecService == Init /\ [][NextService]_vars

\* file requests made one after another
NextFiles ==
    \/ Populate
    \/ Rename
    \/ Move
    \/ Delete

SpecFiles == Init /\ [][NextFiles]_vars

TypeOK ==
    /\ is_running \in BOOLEAN
    /\ lockW \in Procs \cup {NoProc}
    /\ \A p \in Procs : stats[p].errors >= 0


\* ------------------------------------------------------------ properties

\* the tasks inside do_index, and the non-skipped runs between set and clear
InBody == {p \in Procs : pc[p] \in BodyPcs}
Active == {p \in Procs : pc[p] \in ActivePcs}

\* C1: whatever the interleaving of the background loop and the manually
\* triggered calls, at most one task is executing the scan body (do_index:
\* walk, cleanup, second pass) at any time.
C1_SingleFlight == Cardinality(InBody) <= 1

\* a manual trigger has just been short-circuited while the loop is scanning
C1_Witness ==
    /\ pc[Loop] \in {"walk", "cleanup", "phase2"}
    /\ ev.op = "check" /\ ev.res = "skipped" /\ ev.proc \in Manual

\* C2: a call that finds the flag set returns at once with zeroed stats while
\* the active run is still going on, writes nothing to the store, starts no
\* compaction, walk or extraction, and leaves the flag set.
C2_SkippedCallIsNoOp ==
    [][\A p \in Procs :
          (pc[p] = "check" /\ pc'[p] # "check" /\ is_running)
          => /\ ev'.res = "skipped"
             /\ pc'[p] \in {"idle", "sleep"}
             /\ stats'[p] = DefaultStats
             /\ is_running'
             /\ \E q \in Procs \ {p} : pc[q] \in ActivePcs /\ pc'[q] = pc[q]
             /\ UNCHANGED <<store, fs, hist, retry, indexed_paths,
                            pending_metadata, wi>>]_vars

\* the call of the loop has just been skipped while a manual run is scanning
C2_Witness ==
    /\ ev.op = "check" /\ ev.res = "skipped" /\ ev.proc = Loop
    /\ pc[Loop] = "sleep"
    /\ is_running
    /\ \E m \in Manual : pc[m] \in BodyPcs

\* C3: the flag is true exactly when one non-skipped run is between its
\* check-and-set and its clear; there are never two, and a run whose scan
\* body returned Err clears the flag like one that returned Ok.
C3_FlagIffRunActive ==
    /\ Cardinality(Active) <= 1
    /\ is_running <=> Cardinality(Active) = 1

\* a run whose do_index returned Err has just cleared the flag
C3_Witness ==
    /\ ev.op = "clear" /\ ev.res = "err"
    /\ ~is_running
    /\ Active = {}

\* C4: the write guard is held only in the check-and-set step and in the
\* clear step, each of which can always finish, never across compaction or
\* the scan body; a status read made while a scan is running returns true.
C4_StatusNeverBlocksOnScan ==
    /\ lockW # NoProc => /\ pc[lockW] \in {"check", "clear"}
                         /\ ENABLED (CheckAndSet(lockW) \/ Clear(lockW))
    /\ \A p \in Procs : pc[p] \in {"vacuum"} \cup BodyPcs => lockW # p
    /\ (ev.op = "is_running" /\ \E p \in Procs : pc[p] \in {"vacuum"} \cup BodyPcs)
          => ev.res = "true"

\* is_running() has just returned true in the middle of a walk
C4_Witness ==
    /\ ev.op = "is_running" /\ ev.res = "true"
    /\ \E p \in Procs : pc[p] = "walk" /\ wi[p] > 1

\* the loop's call of run_full_index returns in this step
LoopReturns == pc[Loop] \in {"check", "clear"} /\ pc'[Loop] = "sleep"

\* C5 as stated: the loop's call that follows a scan of the loop that took
\* longer than the interval is skipped by the single-flight guard.
C5_Original == [][(LoopReturns /\ prevLong) => ev'.res = "skipped"]_vars

\* C5 amended: the loop awaits its call of run_full_index and then sleeps for
\* the interval, so its next call starts one interval after the previous call
\* returned, however long that call took; a call of the loop is skipped only
\* when a manually triggered run is in flight; no two runs overlap.
C5_LoopAwaitsThenSleeps ==
    /\ [](Cardinality(InBody) <= 1 /\ (pc[Loop] = "sleep" => sinceCall >= callDur))
    /\ [][(pc[Loop] = "sleep" /\ pc'[Loop] # "sleep")
             => sinceCall = callDur + Interval]_vars
    /\ [][(LoopReturns /\ ev'.res = "skipped")
             => \E m \in Manual : pc[m] \in ActivePcs]_vars
    /\ [][(LoopReturns /\ prevLong /\ Active \subseteq {Loop})
             => ev'.res # "skipped"]_vars

\* after a scan longer than the interval the loop's next call started a scan
C5_Witness ==
    /\ prevLong
    /\ callDur > Interval
    /\ ev.op = "check" /\ ev.proc = Loop /\ ev.res = "started"


\* the walk of task self handles path p in this step
WalkStep(self, p) ==
    /\ pc[self] = "walk"
    /\ WalkOrder[wi[self]] = p
    /\ wi'[self] = wi[self] + 1

\* the walker yielded the entry and its metadata was read
Yielded == ev'.res \in {"skipped", "indexed", "upsert_err"}

\* the persisted size and modified-time of p equal the filesystem's
SameAttrs(p) ==
    /\ fs[p].exists
    /\ store[p].present
    /\ store[p].size = (IF IsFile(p) THEN fs[p].size ELSE None)
    /\ store[p].modified = fs[p].modified

Enqueued(self, p) == pending_metadata'[self] = Append(pending_metadata[self], p)
NotEnqueued(self) == pending_metadata'[self] = pending_metadata[self]
Observed(self, p) ==
    /\ indexed_paths'[self] = Append(indexed_paths[self], p)
    /\ hist'.walked = hist.walked \cup {p}

\* what the walk does with an entry it skips
SkipEffects(self, p) ==
    /\ stats'[self].files_skipped = stats[self].files_skipped + 1
    /\ stats'[self].files_indexed = stats[self].files_indexed
    /\ Observed(self, p)
    /\ store' = store
    /\ IF IsFile(p) /\ store[p].metadata_status # STATUS_COMPLETE
       THEN Enqueued(self, p)
       ELSE NotEnqueued(self)

\* C6 as stated: every walked entry whose persisted size and modified-time
\* equal the filesystem's is counted as skipped, joins the observed set, gets
\* no upsert, and is queued iff it is a file whose status is not complete.
C6_Original ==
    [][\A self \in Procs, p \in Paths :
          (WalkStep(self, p) /\ Yielded /\ SameAttrs(p)) => SkipEffects(self, p)]_vars

\* C6 amended: the same, for every walked entry for which the lookup returns
\* the persisted row (a failed lookup falls through to the upsert).
C6_SkipUnchanged ==
    [][\A self \in Procs, p \in Paths :
          (WalkStep(self, p) /\ Yielded /\ SameAttrs(p) /\ ev'.lookup # "err")
          => SkipEffects(self, p)]_vars

\* an unchanged file whose row is still pending was skipped and queued
C6_Witness ==
    /\ ev.op = "walk" /\ ev.res = "skipped" /\ IsFile(ev.path)
    /\ store[ev.path].metadata_status = STATUS_PENDING
    /\ pending_metadata[ev.proc] # <<>>
    /\ pending_metadata[ev.proc][Len(pending_metadata[ev.proc])] = ev.path
    /\ stats[ev.proc].files_skipped >= 1

\* C7: every walked entry with no persisted row, or whose persisted size or
\* modified-time differs from the filesystem's, gets one upsert with the
\* filesystem attributes, null media fields and status pending for a file,
\* complete for a directory; when the upsert succeeds files_indexed grows by
\* one, the path joins the observed set, and it is queued iff it is a file.
C7_UpsertNewOrChanged ==
    [][\A self \in Procs, p \in Paths :
          (WalkStep(self, p) /\ Yielded /\ ~SameAttrs(p))
          => /\ ev'.res \in {"indexed", "upsert_err"}
             /\ ev'.res = "indexed" =>
                   /\ store' = [store EXCEPT ![p] =
                         [present |-> TRUE, is_dir |-> ~IsFile(p),
                          size |-> IF IsFile(p) THEN fs[p].size ELSE None,
                          modified |-> fs[p].modified,
                          width |-> None, height |-> None, duration |-> None,
                          metadata_status |-> IF IsFile(p) THEN STATUS_PENDING
                                              ELSE STATUS_COMPLETE,
                          indexed_at |-> CURRENT_TIMESTAMP]]
                   /\ stats'[self].files_indexed = stats[self].files_indexed + 1
                   /\ stats'[self].files_skipped = stats[self].files_skipped
                   /\ Observed(self, p)
                   /\ IF IsFile(p) THEN Enqueued(self, p) ELSE NotEnqueued(self)]_vars

\* a file whose row was complete changed on disk and was upserted as pending
C7_Witness ==
    /\ ev.op = "walk" /\ ev.res = "indexed" /\ ev.lookup = "hit"
    /\ IsFile(ev.path)
    /\ store[ev.path].metadata_status = STATUS_PENDING
    /\ store[ev.path].size = fs[ev.path].size
    /\ store[ev.path].modified = fs[ev.path].modified
    /\ fsChanges > 0

\* the cleanup of task self runs in this step
CleanupStep(self) == pc[self] = "cleanup" /\ pc'[self] # "cleanup"

\* the rows the step deleted
Deleted == {p \in Paths : store[p].present /\ ~store'[p].present}

\* every persisted path the walk did not observe is deleted, and nothing else
DeletesUnobserved(self) ==
    /\ \A p \in Paths :
          store'[p] = IF store[p].present /\ p \notin hist.walked
                      THEN NoRow ELSE store[p]
    /\ stats'[self].files_removed = Cardinality(Deleted)

\* C8 as stated: after the walk every persisted path not observed in the run
\* is deleted by the cleanup, files_removed is the number deleted, and no
\* observed path is deleted.
C8_Original ==
    [][\A self \in Procs : CleanupStep(self) => DeletesUnobserved(self)]_vars

\* C8 amended: that is what a cleanup that succeeds does; when the cleanup
\* operation fails, no row is deleted, files_removed stays 0 and errors grows
\* by one.
C8_CleanupDeletesUnobserved ==
    [][\A self \in Procs :
          CleanupStep(self)
          => IF ev'.res = "ok"
             THEN DeletesUnobserved(self)
             ELSE /\ store' = store
                  /\ stats'[self].files_removed = 0
                  /\ stats'[self].errors = stats[self].errors + 1]_vars

\* a cleanup has deleted the row of a removed file and kept the observed rows
C8_Witness ==
    /\ ev.op = "cleanup" /\ ev.res = "ok"
    /\ stats[ev.proc].files_removed >= 1
    /\ hist.walked # {}
    /\ \A p \in hist.walked : store[p].present
    /\ \E p \in Paths : ~fs[p].exists /\ ~store[p].present


\* do_index of task self has just returned Ok(stats)
EndOfScan(self) == pc[self] = "clear_acq" /\ result[self] = "ok"

Complete(p) == store[p].metadata_status = STATUS_COMPLETE
Pending(p) == store[p].metadata_status = STATUS_PENDING

\* the extractor returned success or NotMediaFile for p in this run
ExtractorAnswered(p) ==
    hist.probe[p] \in {"ok", "ok_upd_err", "notmedia", "notmedia_upd_err"}

Phase2Step(self, p) ==
    /\ pc[self] = "phase2"
    /\ Head(pending_metadata[self]) = p
    /\ pending_metadata'[self] = Tail(pending_metadata[self])

ExtractionFails(self, p) == Phase2Step(self, p) /\ ev'.res \in ExtractFailures

\* the row stays pending and the error is counted
StaysPending(self, p) ==
    /\ store' = store
    /\ store[p].present /\ Pending(p)
    /\ stats'[self].errors = stats[self].errors + 1

\* the file is counted as skipped and queued for the second pass again
SkippedAndQueued(self, p) ==
    /\ stats'[self].files_skipped = stats[self].files_skipped + 1
    /\ Enqueued(self, p)

\* C10 as stated: after a failed extraction the row stays pending and the
\* error is counted; when a later run walks the file on an unchanged
\* filesystem it is counted as skipped and queued again, and the row becomes
\* complete in the first run in which extraction succeeds.
C10_Original ==
    /\ [][\A self \in Procs, p \in Paths :
             ExtractionFails(self, p) => StaysPending(self, p)]_vars
    /\ [][\A self \in Procs, p \in retry :
             (WalkStep(self, p) /\ SameAttrs(p)) => SkippedAndQueued(self, p)]_vars
    /\ [][\A self \in Procs, p \in Paths :
             (Phase2Step(self, p) /\ ev'.res \in {"ok", "ok_upd_err"})
             => store'[p].metadata_status = STATUS_COMPLETE]_vars

\* C10 amended: after a failed extraction the row stays pending and the
\* error is counted; in a later run in which the walk yields the unchanged
\* file with its metadata and the lookup returns the row, the file is counted
\* as skipped and queued again; the row becomes complete in the first run in
\* which extraction succeeds and the media-field update succeeds.
C10_PendingIsRetried ==
    /\ [](\A p \in retry : store[p].present /\ Pending(p))
    /\ [][\A self \in Procs, p \in Paths :
             ExtractionFails(self, p) => StaysPending(self, p)]_vars
    /\ [][\A self \in Procs, p \in retry :
             (WalkStep(self, p) /\ SameAttrs(p) /\ Yielded /\ ev'.lookup # "err")
             => SkippedAndQueued(self, p)]_vars
    /\ [][\A self \in Procs, p \in Paths :
             (Phase2Step(self, p) /\ ev'.res = "ok")
             => store'[p].metadata_status = STATUS_COMPLETE]_vars

\* a file whose extraction failed in an earlier run is walked again, counted
\* as skipped and queued for the second pass while its row is still pending
C10_Witness ==
    /\ ev.op = "walk" /\ ev.res = "skipped"
    /\ ev.path \in retry
    /\ Pending(ev.path)
    /\ stats[ev.proc].files_skipped >= 1
    /\ ev.path \in SeqToSet(pending_metadata[ev.proc])


\* the walk of task self has just written the row of p
WroteRow(self, p) == WalkStep(self, p) /\ ev'.res = "indexed"

\* C11 as stated: when the walk writes a row, directories and non-media files
\* are written with status complete and only media files with status pending.
C11_Original ==
    [][\A self \in Procs, p \in Paths :
          WroteRow(self, p)
          => store'[p].metadata_status =
                IF is_likely_media_file(p) THEN STATUS_PENDING
                ELSE STATUS_COMPLETE]_vars

\* C11 amended: when the walk writes a row, a directory is written with
\* status complete and every file, media or not, with status pending and is
\* queued for the second pass; a non-media file becomes complete there, when
\* the extractor answers NotMediaFile and the media-field update succeeds.
C11_StatusWrittenByWalk ==
    /\ [][\A self \in Procs, p \in Paths :
             WroteRow(self, p)
             => /\ store'[p].metadata_status =
                      IF IsFile(p) THEN STATUS_PENDING ELSE STATUS_COMPLETE
                /\ IF IsFile(p) THEN Enqueued(self, p) ELSE NotEnqueued(self)]_vars
    /\ [][\A self \in Procs, p \in Paths :
             (Phase2Step(self, p) /\ ~is_likely_media_file(p))
             => /\ ev'.res \in {"notmedia", "notmedia_upd_err"}
                /\ ev'.res = "notmedia"
                      => store'[p].metadata_status = STATUS_COMPLETE]_vars

\* the walk has just written the row of a text file as pending and queued it
C11_Witness ==
    /\ ev.op = "walk" /\ ev.res = "indexed"
    /\ IsFile(ev.path) /\ ~is_likely_media_file(ev.path)
    /\ Pending(ev.path)
    /\ ev.path \in SeqToSet(pending_metadata[ev.proc])

\* the entries on disk
OnDisk == {p \in Paths : fs[p].exists}

\* C12 as stated: a scan that re-runs over the tree the previous completed
\* scan found counts every walked entry as skipped and none as indexed, and
\* leaves the indexed_at of every skipped entry's row as it was, also of the
\* entries that are still pending and go through the second pass.
C12_Original ==
    \A self \in Procs :
       (EndOfScan(self) /\ hist.rescan # "none")
       => /\ stats[self].files_skipped = Cardinality(OnDisk)
          /\ stats[self].files_indexed = 0
          /\ \A p \in hist.skipped : store[p].indexed_at = Earlier

\* C12 amended: a scan that re-runs over the tree the previous completed scan
\* found, when that scan persisted every entry and no walk, metadata read,
\* lookup or upsert fails in the re-run, counts every walked entry as skipped
\* and none as indexed; the indexed_at of a skipped entry's row is left as it
\* was, except for an entry that is still pending: when its media-field
\* update in the second pass succeeds, its indexed_at is refreshed.
C12_RescanSkipsEverything ==
    \A self \in Procs :
       EndOfScan(self)
       => /\ hist.rescan = "all"
                => /\ stats[self].files_skipped = Cardinality(OnDisk)
                   /\ stats[self].files_scanned = Cardinality(OnDisk)
                   /\ stats[self].files_indexed = 0
                   /\ hist.skipped = OnDisk
          /\ \A p \in hist.skipped :
                /\ store[p].present
                /\ store[p].indexed_at =
                      IF hist.probe[p] \in {"ok", "notmedia"}
                      THEN CURRENT_TIMESTAMP ELSE Earlier

\* a re-run over an unchanged tree skipped all three entries; the row of the
\* directory kept its indexed_at and the row of a file that was still
\* pending got a new one from the second pass
C12_Witness ==
    \E self \in Procs :
       /\ EndOfScan(self)
       /\ hist.rescan = "all"
       /\ stats[self].files_skipped = 3
       /\ stats[self].files_indexed = 0
       /\ store["/"].indexed_at = Earlier
       /\ \E p \in hist.skipped : store[p].indexed_at = CURRENT_TIMESTAMP

\* outcomes of a step of the scan body that are failures
ErrorOutcomes ==
    {"walk_err", "meta_err", "upsert_err", "db_err", "ok_upd_err",
     "notmedia_upd_err"} \cup ExtractFailures

\* task self takes a step of the walk, the cleanup or the second pass
ScanStep(self) ==
    /\ pc[self] \in {"walk", "cleanup", "phase2"}
    /\ ev'.proc = self
    /\ ev'.op \in {"walk", "cleanup", "phase2"}

\* C13: a failure of one entry (walk error, metadata read error, upsert
\* error, extraction error, media-field update error) or of the cleanup adds
\* one to errors and the scan goes on with the remaining entries; once the
\* root is canonicalized the run returns Ok with its stats.
C13_ErrorsCountedScanGoesOn ==
    /\ [][\A self \in Procs :
             ScanStep(self)
             => /\ stats'[self].errors =
                      stats[self].errors + (IF ev'.res \in ErrorOutcomes THEN 1 ELSE 0)
                /\ result'[self] # "err"
                /\ pc'[self] \in {"walk", "cleanup", "phase2", "clear_acq"}
                /\ pc'[self] = "clear_acq" => result'[self] = "ok"
                /\ pc[self] = "walk"
                      => /\ wi'[self] = wi[self] + 1
                         /\ pc'[self] = IF wi[self] < Len(WalkOrder)
                                        THEN "walk" ELSE "cleanup"
                /\ pc[self] = "cleanup"
                      => pc'[self] = IF pending_metadata[self] # <<>>
                                     THEN "phase2" ELSE "clear_acq"
                /\ pc[self] = "phase2"
                      => /\ pending_metadata'[self] = Tail(pending_metadata[self])
                         /\ pc'[self] = IF Tail(pending_metadata[self]) # <<>>
                                        THEN "phase2" ELSE "clear_acq"]_vars
    /\ [](\A self \in Procs :
             pc[self] \in {"walk", "cleanup", "phase2"} => result[self] # "err")

\* a scan returned Ok after an entry failed and the cleanup failed, having
\* persisted another entry
C13_Witness ==
    \E self \in Procs :
       /\ EndOfScan(self)
       /\ stats[self].errors >= 2
       /\ stats[self].files_indexed >= 1
       /\ hist.cleanup = "err"

\* do_index of task self found that the root cannot be canonicalized
RootFails(self) == pc[self] = "canon" /\ ~rootOk /\ pc'[self] # "canon"

\* C14: when the root cannot be canonicalized the run returns an error
\* without walking, upserting, deleting a row or calling the extractor, and
\* the flag is cleared so that a later run can start.
C14_RootErrorTouchesNothing ==
    /\ [][\A self \in Procs :
             RootFails(self)
             => /\ pc'[self] = "clear_acq"
                /\ result'[self] = "err"
                /\ UNCHANGED <<store, stats, indexed_paths, pending_metadata,
                               hist, fs, wi>>]_vars
    /\ [](\A self \in Procs :
             (result[self] = "err" /\ pc[self] \in {"clear_acq", "clear"})
             => /\ stats[self] = DefaultStats
                /\ indexed_paths[self] = <<>>
                /\ pending_metadata[self] = <<>>
                /\ hist.walked = {} /\ hist.cleanup = "none"
                /\ \A p \in Paths : hist.probe[p] = "none"
                /\ is_running)
    /\ [][\A self \in Procs :
             (pc[self] \in {"clear_acq", "clear"} /\ result[self] = "err")
             => /\ store' = store
                /\ pc'[self] \in {"clear_acq", "clear", "idle", "sleep"}
                /\ pc'[self] \in {"idle", "sleep"}
                      => ~is_running' /\ lockW' = NoProc]_vars

\* a run that found the root unreachable has returned its error, the flag is
\* clear and the next trigger can start a run
C14_Witness ==
    /\ ev.op = "clear" /\ ev.res = "err" /\ ev.proc = Scanner
    /\ ~rootOk
    /\ ~is_running /\ lockW = NoProc
    /\ pc[Scanner] = "idle"
    /\ ENABLED Trigger(Scanner)


\* ---------------------------------------------- properties of the search index

\* the byte range of entry i ends where the next begins, the last at the end
\* of the buffer
EndOfRange(i) ==
    IF i < Len(offsets) THEN offsets[i + 1] ELSE Len(normalized_paths)

\* C15: after build_from_entries and after any sequence of add_entry,
\* remove_entry and rename_entry, ids, offsets and original_paths have the
\* same length, the first offset is 0, the offsets never decrease and never
\* exceed the buffer length, and the ranges between consecutive offsets (the
\* last ending at the buffer length) partition the buffer, each holding the
\* bytes of the normalized original path of its entry.
C15_IndexWellFormed ==
    /\ Len(ids) = Len(offsets) /\ Len(offsets) = Len(original_paths)
    /\ offsets # <<>> => offsets[1] = 0
    /\ offsets = <<>> => normalized_paths = <<>>
    /\ \A i \in 1..Len(offsets) :
          /\ offsets[i] >= 0
          /\ offsets[i] <= EndOfRange(i)
          /\ EndOfRange(i) <= Len(normalized_paths)
          /\ SubSeq(normalized_paths, offsets[i] + 1, EndOfRange(i))
                = as_bytes(normalize_path(original_paths[i]))

\* the first entry was renamed to a path that normalizes to nothing: its
\* range is empty and the range of the entry after it has moved to offset 0
C15_Witness ==
    /\ iev.op = "rename_entry" /\ iev.ret
    /\ iev.path = <<"/", "a", "b">>
    /\ original_paths = << <<"circ">>, <<"/", "oslash">> >>
    /\ offsets = <<0, 0>>
    /\ normalized_paths = <<47, 195, 184>>

\* the original paths held in the index
HeldPaths == {original_paths[i] : i \in 1..Len(original_paths)}

\* C16: after any sequence of build_from_entries, add_entry, remove_entry
\* and rename_entry, the entry count equals the number of distinct original
\* paths held in the index.
C16_Original == len(TheIndex) = Cardinality(HeldPaths)

\* C17: after any sequence of add_entry, remove_entry and rename_entry, the
\* index is the one build_from_entries makes of the equivalent final list of
\* (id, path) pairs, and every query returns on it what it returns on that
\* fresh build.
C17_SameAsFreshBuild ==
    /\ TheIndex = build_from_entries(entries)
    /\ \A q \in QueryPool :
          search(TheIndex, q) = search(build_from_entries(entries), q)
    /\ iev.op = "search"
          => iev.res = search(build_from_entries(entries), iev.query)

\* after an entry before another was renamed to a longer path, a query finds
\* the entry behind it
C17_Witness ==
    /\ iev.op = "rename_entry" /\ iev.ret
    /\ iev.path = <<"circ">>
    /\ original_paths = << <<"/", "Acirc", "b", "&">>, <<"/", "oslash">> >>
    /\ search(TheIndex, <<"oslash">>) = <<ids[2]>>
    /\ search(TheIndex, <<"b", "&">>) = <<ids[1]>>

\* the index as the step leaves it
IndexAfter == [ids |-> ids', offsets |-> offsets',
               normalized_paths |-> normalized_paths',
               original_paths |-> original_paths']

\* remove_entry or rename_entry is called in this step with a path that no
\* entry of the index has
MutationOfAbsent ==
    /\ iev'.op \in {"remove_entry", "rename_entry"}
    /\ iev'.path \notin HeldPaths

\* C18: remove_entry(p) and rename_entry(p, q) on an index that holds no
\* entry of original path p return false and leave ids, offsets, buffer and
\* original paths as they are, and with them the entry count and the result
\* of every query, which are computed from these four alone.
C18_AbsentPathIsNoOp ==
    [][MutationOfAbsent
          => /\ iev'.ret = FALSE
             /\ UNCHANGED <<ids, offsets, normalized_paths, original_paths>>
             /\ len(IndexAfter) = len(TheIndex)
             /\ IndexAfter = TheIndex
             /\ entries' = entries]_vars

\* a rename or removal of a path the full index does not hold returned false
C18_Witness ==
    /\ iev.op \in {"remove_entry", "rename_entry"}
    /\ ~iev.ret
    /\ iev.path \notin HeldPaths
    /\ len(TheIndex) = MaxEntries

\* needle is a contiguous run of hay
Contains(hay, needle) ==
    \E i \in 0..(Len(hay) - Len(needle)) :
       \A j \in 1..Len(needle) : hay[i + j] = needle[j]

\* the normalized path contains every one of the tokens, normalized
ContainsAll(path, tokens) ==
    \A k \in 1..Len(tokens) :
       Contains(normalize_path(path), normalize_path(tokens[k]))

\* the ids of the pairs of es whose path contains all the tokens, in the
\* order of es
RECURSIVE IdsOf(_, _)
IdsOf(es, tokens) ==
    IF es = <<>> THEN <<>>
    ELSE (IF ContainsAll(es[1][2], tokens) THEN <<es[1][1]>> ELSE <<>>)
         \o IdsOf(Tail(es), tokens)

\* the ids of the entries whose normalized path contains every one of the
\* tokens, normalized
IdsContainingAll(tokens) == IdsOf(entries, tokens)

\* a search has just been made with a query of n tokens
Searched(n) == iev.op = "search" /\ Len(split_whitespace(iev.query)) = n

\* C19 as stated: a query of one token returns the ids of the entries whose
\* normalized path contains the normalized token, one per entry, in entry
\* order, and the empty list when no entry contains it.
C19_Original ==
    Searched(1) => iev.res = IdsContainingAll(split_whitespace(iev.query))

\* C19 amended: that is what a query of one token returns when the token
\* does not normalize to the empty string; when it does, the query returns
\* the empty list.
C19_SingleTokenIsSubstringSearch ==
    Searched(1)
    => LET token == split_whitespace(iev.query)[1]
       IN iev.res = IF normalize_path(token) = <<>> THEN <<>>
                    ELSE IdsContainingAll(<<token>>)

\* a one-token query found the token inside the paths of both entries
C19_Witness ==
    /\ Searched(1)
    /\ iev.query = <<"a", "b">>
    /\ Len(iev.res) = 2
    /\ original_paths[1] # original_paths[2]

\* C20: a query of two or more tokens returns the ids of the entries whose
\* normalized path contains every normalized token, whether the tokens
\* overlap in the path, are prefixes or substrings of one another or are
\* repeated.
C20_Original ==
    (iev.op = "search" /\ Len(split_whitespace(iev.query)) >= 2)
    => iev.res = IdsContainingAll(split_whitespace(iev.query))

\* the strings the index normalized: the paths it holds and the tokens of
\* the last query
NormalizedStrings ==
    {original_paths[i] : i \in 1..Len(original_paths)}
    \cup (IF iev.op = "search"
          THEN SeqToSet(split_whitespace(iev.query)) ELSE {})

\* C21: normalize_path is idempotent: normalizing a normalized string gives
\* the same string again, for every string.
C21_Original ==
    \A str \in NormalizedStrings :
       normalize_path(normalize_path(str)) = normalize_path(str)

\* the tokens of two queries have the same normalized forms
SameNormalizedTokens(q1, q2) ==
    LET t1 == split_whitespace(q1)
        t2 == split_whitespace(q2)
    IN /\ Len(t1) = Len(t2)
       /\ \A i \in 1..Len(t1) : normalize_path(t1[i]) = normalize_path(t2[i])

\* no two entries of the index have the same id
DistinctIds == \A i, j \in 1..Len(ids) : i # j => ids[i] # ids[j]

\* C22: the bytes the index holds for a path, however the path came in, are
\* those of the normalization that is applied to the tokens of a query; two
\* queries whose tokens have equal normalized forms return the same result,
\* and two paths with equal normalized forms are matched by the same queries.
C22_OneNormalization ==
    LET found == [q \in QueryPool |-> search(TheIndex, q)]
    IN /\ \A i \in 1..len(TheIndex) :
             get_path_bytes(TheIndex, i) = as_bytes(normalize_path(original_paths[i]))
       /\ \A q1, q2 \in QueryPool :
             SameNormalizedTokens(q1, q2) => found[q1] = found[q2]
       /\ DistinctIds
          => \A i, j \in 1..len(TheIndex) :
                normalize_path(original_paths[i]) = normalize_path(original_paths[j])
                => \A q \in QueryPool :
                      ids[i] \in SeqToSet(found[q]) <=> ids[j] \in SeqToSet(found[q])

\* two paths that differ in case and in an accent were found by a query in
\* capitals
C22_Witness ==
    /\ len(TheIndex) = 2
    /\ DistinctIds
    /\ original_paths[1] # original_paths[2]
    /\ normalize_path(original_paths[1]) = normalize_path(original_paths[2])
    /\ iev.op = "search"
    /\ iev.query = <<" ", "A", "b", " ">>
    /\ Len(iev.res) = 2

\* ------------------------------------- properties of the index and the store

\* the characters of each path of the tree, as the search index is given them
Chars == [p \in Paths |->
    IF p = "/a.mp4" THEN <<"/", "a", ".", "m", "p", "4">>
    ELSE IF p = "/b.txt" THEN <<"/", "b", ".", "t", "x", "t">>
    ELSE <<"/">>]

\* the paths that have a row in indexed_files
StoredPaths == {p \in Paths : store[p].present}

\* C28: the index is built from the store at startup, and once a full scan
\* has completed, with no mutation after it, the entries of the search index
\* are the rows of the store: what was added, changed or removed on disk is
\* searchable or unsearchable no later than the end of the next scan.
C28_Original ==
    (ev.op = "clear" /\ ev.res = "ok")
    => /\ len(TheIndex) = Cardinality(StoredPaths)
       /\ SeqToSet(original_paths) = {Chars[p] : p \in StoredPaths}

\* ------------------------------------------- properties of the extractor

\* C24 (as stated): once extract has returned Timeout, the child it started
\* has been terminated and reaped.
C24_Original ==
    (xpc \in AfterExtract /\ xret.kind = "Timeout") => child = "reaped"

\* the streams of an output
StreamsOf(out) == IF out.streams.some THEN out.streams.list ELSE <<>>

\* the position of the first video stream, one past the end when none
FirstVideo(l) ==
    IF \E i \in 1..Len(l) : l[i].codec_type = "video"
    THEN CHOOSE i \in 1..Len(l) :
            /\ l[i].codec_type = "video"
            /\ \A j \in 1..(i - 1) : l[j].codec_type # "video"
    ELSE Len(l) + 1

\* a duration is reported: present and a number
Reported(d) == d # None /\ d # Unparsable

\* the audio streams among the first n that report a duration
AudioReporting(l, n) ==
    {i \in 1..n : l[i].codec_type = "audio" /\ Reported(l[i].duration)}

Least(S) == CHOOSE i \in S : \A j \in S : i <= j

\* the duration by the stated order: video, then audio, then format
StatedDuration(out) ==
    LET l == StreamsOf(out)
        v == FirstVideo(l)
        a == AudioReporting(l, Len(l))
    IN IF v <= Len(l) /\ Reported(l[v].duration) THEN l[v].duration
       ELSE IF a # {} THEN l[Least(a)].duration
       ELSE IF out.format.some /\ Reported(out.format.duration)
       THEN out.format.duration
       ELSE None

\* the duration by the order video, then format, then the audio streams
\* listed before the first video stream
OrderedDuration(out) ==
    LET l == StreamsOf(out)
        v == FirstVideo(l)
        a == AudioReporting(l, v - 1)
    IN IF v <= Len(l) /\ Reported(l[v].duration) THEN l[v].duration
       ELSE IF out.format.some /\ Reported(out.format.duration)
       THEN out.format.duration
       ELSE IF a # {} THEN l[Least(a)].duration
       ELSE None

\* width, height and codec are those of the first video stream, if any
VideoFields(out, meta) ==
    LET l == StreamsOf(out)
        v == FirstVideo(l)
    IN v <= Len(l) =>
          /\ meta.width = l[v].width
          /\ meta.height = l[v].height
          /\ meta.codec = l[v].codec_name

\* extract has returned Ok and the output it parsed is still at hand
ParsedOk == xpc = "returned" /\ xret.kind = "Ok"

NotMedia == xfile \in ProbeFiles /\ Extension[xfile] \notin MediaExtensions

\* C26 (as stated): for a path without an allowed extension extract returns
\* NotMediaFile and spawns nothing; the record is then Complete and the file
\* is not queued again while unchanged.
C26_Original ==
    (NotMedia /\ xpc \in AfterExtract) =>
        /\ xret.kind = "NotMediaFile"
        /\ child = "none"
        /\ xpc # "returned" =>
              media_rows[xfile].metadata_status = STATUS_COMPLETE
        /\ xpc = "rewalked" => requeued = "no"

\* C26 (amended): for a path without an allowed extension extract returns
\* NotMediaFile and spawns nothing; when the update of the record succeeds
\* the record is Complete, and a later walk that reads the record and finds
\* the file unchanged does not queue it.
C26_NotMedia ==
    (NotMedia /\ xpc \in AfterExtract) =>
        /\ xret.kind = "NotMediaFile"
        /\ child = "none"
        /\ xpc = "recorded" =>
              media_rows[xfile].metadata_status = STATUS_COMPLETE
        /\ (xpc = "rewalked" /\ stats[Scanner].errors = 0
                /\ stats[Scanner].files_skipped = 1) => requeued = "no"

\* a file with an upper-case extension outside the allow-list was recorded
\* and skipped, not queued, by the next walk
C26_Witness ==
    /\ xfile = "/f.TXT"
    /\ xpc = "rewalked"
    /\ stats[Scanner].errors = 0
    /\ stats[Scanner].files_skipped = 1
    /\ requeued = "no"
    /\ media_rows[xfile].metadata_status = STATUS_COMPLETE

Committed == build_from_entries(entries)

\* a client returns from a read call
ReadEnds(c) == cpc[c] = "reading" /\ cpc'[c] = "idle"

\* the rebuild moves on without completing its swap
RebuildGoesOn ==
    /\ cpc'[Rebuilder] # cpc[Rebuilder]
    /\ cpc'[Rebuilder] \in {"fetched", "built", "swapping"}

\* what a step of the service must keep to
WholeIndexStep ==
    /\ \A c \in Clients :
          ReadEnds(c) => cop'[c].res = ReadResult(cop[c], Committed)
    /\ RebuildGoesOn =>
          UNCHANGED <<ids, offsets, normalized_paths, original_paths>>

\* C23: under any interleaving of the service's calls, a client holding the
\* read guard has before it the index as the completed mutations and swaps
\* left it, what its call returns is computed on that index, and a rebuild
\* leaves the index alone until its swap.
C23_ReadsSeeWholeIndex ==
    /\ [](\A c \in rwlock.readers : TheIndex = Committed)
    /\ [][WholeIndexStep]_vars

\* two clients read an index of two entries while the rebuild has built an
\* index that differs from it and waits for the write guard
C23_Witness ==
    /\ rwlock.readers = {Reader, Writer}
    /\ cop[Reader].op = "search"
    /\ cop[Writer].op = "find_id_by_path"
    /\ cpc[Rebuilder] = "built"
    /\ new_index.index # TheIndex
    /\ len(TheIndex) = 2
    /\ TheIndex = Committed

\* ----------------------------------------- properties of the file requests

\* the rows of the store at a path
RowsAt(tbl, path) == {r \in tbl : r.path = path}

\* C29 (as stated): after a rename, a performed move or a delete that returns
\* success the store has no record at the old path and, for rename and move,
\* exactly one at the new path; a skipped move changes neither the tree nor
\* the store.
C29_Original ==
    (fev.op # "none" /\ fev.resp = "success" /\ fev.new_path # fev.path) =>
        /\ fev.performed => RowsAt(table, fev.path) = {}
        /\ (fev.performed /\ fev.op \in {"rename", "move"}) =>
              Cardinality(RowsAt(table, fev.new_path)) = 1
        /\ ~fev.performed => (disk = fev.old_disk /\ table = fev.old_table)

\* the record is the one at old_path or one below it
IsEntry(r, old_path) == r.path = old_path
IsBelow(r, old_path) == StartsWith(r.path, old_path \o <<"/">>)

\* the store rename_path is stated to leave
StatedRename(tbl, old_path, new_path, new_name) ==
    {IF IsEntry(r, old_path) THEN [r EXCEPT !.path = new_path, !.name = new_name]
     ELSE IF IsBelow(r, old_path)
     THEN [r EXCEPT !.path = new_path \o SubSeq(@, Len(old_path) + 1, Len(@))]
     ELSE r : r \in tbl}

\* C30 (as stated): rename_path changes exactly the record at old and the
\* records whose path starts with old followed by '/', leaves every other
\* record unchanged, and returns the number of records changed.
C30_Original ==
    (fev.op \in {"rename", "move"} /\ fev.db = "ok") =>
        LET new_name == IF fev.op = "rename" THEN fev.new_name
                        ELSE file_name(fev.new_path)
        IN /\ table = StatedRename(fev.old_table, fev.path, fev.new_path, new_name)
           /\ fev.affected =
                 Cardinality({r \in fev.old_table :
                                 IsEntry(r, fev.path) \/ IsBelow(r, fev.path)})

\* ------------------------------------------- properties of the phases of a run

\* the second pass of task self calls the extractor in this step
ExtractorCalled(self) == ev'.op = "phase2" /\ ev'.proc = self

\* C31: within one run no extractor invocation happens before the walk has
\* handled every entry and the cleanup has been issued, and the second pass
\* then handles the queued files one at a time, in the order in which the
\* walk queued them.
C31_PhasesInOrder ==
    /\ [](\A self \in Procs :
             /\ pc[self] \in {"walk", "cleanup"}
                   => \A p \in Paths : hist.probe[p] = "none"
             /\ pc[self] = "phase2"
                   => wi[self] = Len(WalkOrder) + 1 /\ hist.cleanup # "none")
    /\ [][\A self \in Procs :
             /\ ExtractorCalled(self)
                   => /\ pc[self] = "phase2"
                      /\ wi[self] = Len(WalkOrder) + 1
                      /\ hist.cleanup # "none"
                      /\ pending_metadata[self] # <<>>
                      /\ ev'.path = Head(pending_metadata[self])
                      /\ pending_metadata'[self] = Tail(pending_metadata[self])
                      /\ hist'.probe[ev'.path] # "none"
                      /\ \A q \in Paths \ {ev'.path} :
                            hist'.probe[q] = hist.probe[q]
             /\ pc[self] = "walk"
                   => \/ pending_metadata'[self] = pending_metadata[self]
                      \/ pending_metadata'[self]
                            = Append(pending_metadata[self], WalkOrder[wi[self]])
             /\ pc[self] = "cleanup"
                   => pending_metadata'[self] = pending_metadata[self]]_vars

\* the second pass has handled the file queued first and then, in another
\* step, the file queued second
C31_Witness ==
    /\ ev.op = "phase2" /\ ev.path = "/b.txt"
    /\ hist.probe["/a.mp4"] # "none"
    /\ hist.probe["/b.txt"] # "none"
    /\ hist.walked = Paths
    /\ hist.cleanup # "none"
    /\ pending_metadata[ev.proc] = <<>>

\* ------------------------------------- properties of rename, removal and search

\* rename_entry is called in this step with a path that an entry has
RenameOfHeld == iev'.op = "rename_entry" /\ iev'.path \in HeldPaths

\* the entry the call renames or removes: the first of original path p
FirstOf(p) ==
    CHOOSE i \in 1..Len(original_paths) :
       /\ original_paths[i] = p
       /\ \A j \in 1..(i - 1) : original_paths[j] # p

\* the bytes of entry i before the step and after it
BytesBefore(i) == SubSeq(normalized_paths, offsets[i] + 1, EndOfRange(i))
BytesAfter(i) ==
    SubSeq(normalized_paths', offsets'[i] + 1,
           IF i < Len(offsets') THEN offsets'[i + 1] ELSE Len(normalized_paths'))

\* the path a rename of a held path was given as the new one: the list of
\* pairs the calls amount to has it at the place of the first pair of the
\* old path
NewPath ==
    LET i == CHOOSE k \in 1..Len(entries) :
                /\ entries[k][2] = iev'.path
                /\ \A j \in 1..(k - 1) : entries[j][2] # iev'.path
    IN entries'[i][2]

\* what C32 states of the renamed entry and of the other entries
RenameEffects ==
    LET idx == FirstOf(iev'.path)
        new_bytes == as_bytes(normalize_path(NewPath))
        diff == Len(new_bytes) - Len(BytesBefore(idx))
    IN /\ iev'.ret
       /\ ids' = ids
       /\ Len(original_paths') = Len(original_paths)
       /\ Len(offsets') = Len(offsets)
       /\ original_paths'[idx] = NewPath
       /\ BytesAfter(idx) = new_bytes
       /\ \A i \in 1..Len(offsets) :
             offsets'[i] = IF i > idx THEN offsets[i] + diff ELSE offsets[i]
       /\ \A i \in (1..Len(original_paths)) \ {idx} :
             /\ original_paths'[i] = original_paths[i]
             /\ BytesAfter(i) = BytesBefore(i)

\* C32 as stated: rename_entry(old, new) on an index holding an entry of
\* original path old returns true, keeps the id and position of the entry,
\* sets its original path to new and its bytes to those of normalize(new),
\* shifts every later offset by the length difference and leaves the other
\* entries as they are; afterwards find_id_by_path(new) returns that id and
\* find_id_by_path(old) returns None.
C32_Original ==
    [][RenameOfHeld
          => /\ RenameEffects
             /\ find_id_by_path(IndexAfter, NewPath)
                   = <<ids[FirstOf(iev'.path)]>>
             /\ find_id_by_path(IndexAfter, iev'.path) = <<>>]_vars

\* C32 amended: the entry renamed is the first of original path old and the
\* effects are as stated; afterwards find_id_by_path(new) returns the id of
\* the renamed entry unless an entry before it has original path new, whose
\* id it then returns, and find_id_by_path(old) returns None unless new is
\* old, when it returns the id of the renamed entry, or a later entry has
\* original path old, when it returns the id of the first of them.
C32_RenameEntry ==
    [][RenameOfHeld
          => LET idx == FirstOf(iev'.path)
                 before == {i \in 1..(idx - 1) :
                               original_paths[i] = NewPath}
                 behind == {i \in (idx + 1)..Len(original_paths) :
                               original_paths[i] = iev'.path}
             IN /\ RenameEffects
                /\ find_id_by_path(IndexAfter, NewPath)
                      = IF before = {} THEN <<ids[idx]>>
                        ELSE <<ids[Least(before)]>>
                /\ find_id_by_path(IndexAfter, iev'.path)
                      = IF NewPath = iev'.path THEN <<ids[idx]>>
                        ELSE IF behind = {} THEN <<>>
                        ELSE <<ids[Least(behind)]>>]_vars

\* the first of two entries was renamed to a longer path: the offset of the
\* second moved, the new path finds the id and the old path finds nothing
C32_Witness ==
    /\ iev.op = "rename_entry" /\ iev.ret
    /\ iev.path = <<"/", "a", "b">>
    /\ original_paths = << <<"/", "Acirc", "b", "&">>, <<"/", "oslash">> >>
    /\ offsets = <<0, 4>>
    /\ ids[1] # ids[2]
    /\ find_id_by_path(TheIndex, original_paths[1]) = <<ids[1]>>
    /\ find_id_by_path(TheIndex, iev.path) = <<>>

\* remove_entry is called in this step with a path that an entry has
RemoveOfHeld == iev'.op = "remove_entry" /\ iev'.path \in HeldPaths

Perms(n) == {f \in [1..n -> 1..n] : \A i, j \in 1..n : i # j => f[i] # f[j]}

\* the query made of the tokens, one space between them
RECURSIVE JoinTokens(_)
JoinTokens(tokens) ==
    IF tokens = <<>> THEN <<>>
    ELSE IF Len(tokens) = 1 THEN tokens[1]
    ELSE tokens[1] \o <<" ">> \o JoinTokens(Tail(tokens))

\* the queries made of the tokens of q in another order
Permuted(q) ==
    LET tokens == split_whitespace(q)
    IN {JoinTokens([i \in 1..Len(tokens) |-> tokens[f[i]]]) :
           f \in Perms(Len(tokens))}

\* C34: multi-token search is independent of token order: on every index,
\* the query made of the same tokens in another order returns the same set
\* of ids.
C34_TokenOrder ==
    iev.op = "search"
    => \A r \in Permuted(iev.query) :
          SeqToSet(search(TheIndex, r)) = SeqToSet(iev.res)

\* a query of three tokens found one of two entries, and finds it with the
\* tokens in each of the other orders
C34_Witness ==
    /\ iev.op = "search"
    /\ iev.query = <<"/", " ", "b", " ", "a">>
    /\ len(TheIndex) = 2
    /\ Len(iev.res) = 1
    /\ Cardinality(Permuted(iev.query)) = 6
    /\ \A r \in Permuted(iev.query) : search(TheIndex, r) = iev.res

\* the query has no token, or only tokens that normalize to nothing
NoTokenLeft(q) ==
    \A k \in 1..Len(split_whitespace(q)) :
       normalize_path(split_whitespace(q)[k]) = <<>>

\* C35: search returns the empty result on every index whenever the query
\* contributes no non-empty normalized token: the empty query, a query of
\* spaces only, and a query all of whose tokens normalize to the empty
\* string.
C35_NoTokenNoResult ==
    (iev.op = "search" /\ NoTokenLeft(iev.query)) => iev.res = <<>>

\* a query of three tokens made of combining marks was made on an index of
\* two entries, one of which has a path that normalizes to nothing, and
\* returned nothing, as the empty query and a query of spaces do
C35_Witness ==
    /\ iev.op = "search"
    /\ iev.query = <<"cgj", " ", "circ", " ", "circ">>
    /\ Len(split_whitespace(iev.query)) = 3
    /\ iev.res = <<>>
    /\ len(TheIndex) = 2
    /\ original_paths[1] = <<"circ">>
    /\ search(TheIndex, <<>>) = <<>>
    /\ search(TheIndex, <<" ", " ">>) = <<>>
    /\ search(TheIndex, <<"circ">>) = <<>>

\* ------------------------------------------------ properties of termination

\* trigger_index was called on an idle indexer whose root is valid
TriggeredIdle(self) ==
    /\ pc[self] = "acquire"
    /\ ~is_running
    /\ rootOk
    /\ \A other \in Manual \ {self} : pc[other] = "idle"

\* every entry under the root has a row in the store
FilesIndexed == \A p \in Paths : fs[p].exists => store[p].present

\* C36 as it is written: every started scan ends and the flag becomes false
\* again, and after trigger_index on an idle indexer with a valid root the
\* records of the files under the root eventually appear in the store (a
\* run during which the root stops being valid is left aside)
C36_Original ==
    /\ \A self \in Manual : (pc[self] \in ActivePcs) ~> (pc[self] = "idle")
    /\ is_running ~> ~is_running
    /\ \A self \in Manual : TriggeredIdle(self) ~> (FilesIndexed \/ ~rootOk)

\* C36: every started scan ends: a run that was not skipped eventually
\* returns and the running flag eventually becomes false, so a flag that is
\* true is never true forever; trigger_index waits for nothing (it can be
\* called whenever the task is idle, whoever holds the flag or the lock), and
\* after it is called on an idle indexer with a valid root a run (the one it
\* spawned, or one that set the flag just before it) eventually ends its
\* scan; when a scan ends without error, every entry the
\* walk observed (its metadata was read and it was skipped as unchanged or
\* its upsert succeeded) has its record in the store
C36_ScanEnds ==
    /\ \A self \in Manual : (pc[self] \in ActivePcs) ~> (pc[self] = "idle")
    /\ is_running ~> ~is_running
    /\ \A self \in Manual :
          TriggeredIdle(self) ~> (\E other \in Manual : pc[other] = "clear_acq")
    /\ [](\A self \in Manual :
            /\ pc[self] = "idle" => ENABLED Trigger(self)
            /\ EndOfScan(self) => \A p \in hist.walked : store[p].present)

\* a triggered run walked the whole tree, its upserts succeeded, and it is
\* about to clear the flag with every record in the store
C36_Witness ==
    /\ EndOfScan(Scanner)
    /\ is_running
    /\ hist.walked = {p \in Paths : fs[p].exists}
    /\ hist.walked # {}
    /\ FilesIndexed

\* the rebuild completes its swap
SwapStep == cpc[Rebuilder] = "swapping" /\ cpc'[Rebuilder] = "idle"

\* a mutation of the index in place completes while the rebuild is between
\* its fetch and its swap
MutationDuringRebuild ==
    /\ cpc[Writer] = "mutating"
    /\ cpc'[Writer] = "idle"
    /\ cpc[Rebuilder] \in {"fetched", "built"}

\* C37: right after the swap of rebuild_from_db the index is exactly
\* build_from_entries of the rows this rebuild fetched: the index it built
\* without the lock is a function of those rows alone, a mutation that
\* completes between the fetch and the swap does not reach it, and the swap
\* replaces the whole index, whatever was applied to it in between.
C37_SwapOverwrites ==
    /\ [](cpc[Rebuilder] \in {"built", "swapping"} =>
             new_index.index = build_from_entries(new_index.rows))
    /\ [][MutationDuringRebuild => new_index' = new_index]_vars
    /\ [][SwapStep => /\ Becomes(build_from_entries(new_index.rows))
                      /\ entries' = new_index.rows]_vars

\* the rebuild has fetched and built, and add_entry is being applied for a
\* path that is not among the fetched rows
C37_Witness ==
    /\ cpc[Rebuilder] = "built"
    /\ cpc[Writer] = "mutating"
    /\ cop[Writer].op = "add_entry"
    /\ new_index.rows # <<>>
    /\ \A i \in 1..Len(new_index.rows) : new_index.rows[i][2] # cop[Writer].path

\* ------------------------------------------ properties of what cleanup keeps

\* the paths the walk of the run skipped as unchanged or upserted
SkippedOrUpserted == hist.skipped \cup (hist.walked \ hist.skipped)

\* of the persisted paths the step keeps those the walk skipped or upserted,
\* as they were, and deletes the others
KeepsSkippedOrUpserted ==
    \A p \in Paths :
        store[p].present =>
            IF p \in SkippedOrUpserted THEN store'[p] = store[p]
            ELSE store'[p] = NoRow

\* the observed set of a run is made of the paths its walk skipped or upserted
ObservedIsSkippedOrUpserted ==
    \A self \in Procs :
        pc[self] \in {"walk", "cleanup"} =>
            SeqToSet(indexed_paths[self]) = SkippedOrUpserted

\* C38 as it is written: cleanup keeps a persisted path if and only if the
\* walk of the same run skipped it as unchanged or upserted it
C38_Original ==
    /\ []ObservedIsSkippedOrUpserted
    /\ [][\A self \in Procs : CleanupStep(self) => KeepsSkippedOrUpserted]_vars

\* C38: a cleanup that succeeds keeps a persisted path if and only if the
\* walk of the same run skipped it as unchanged or upserted it: an entry
\* still on disk whose walk, metadata read or upsert failed in the run is not
\* in the observed set, and the record an earlier run persisted for it is
\* deleted; a cleanup that fails keeps every record.
C38_CleanupKeeps ==
    /\ []ObservedIsSkippedOrUpserted
    /\ [][\A self \in Procs :
             CleanupStep(self) =>
                 IF ev'.res = "ok" THEN KeepsSkippedOrUpserted
                 ELSE store' = store]_vars

\* the tree never changed, an earlier run persisted every entry, and the
\* cleanup of this run deleted the record of an entry that is on disk
C38_Witness ==
    /\ ev.op = "cleanup"
    /\ ev.res = "ok"
    /\ fsChanges = 0
    /\ \A p \in Paths : fs[p].exists
    /\ stats[Scanner].files_removed = 1
    /\ hist.skipped # {}
    /\ \E p \in Paths : p \notin hist.walked /\ ~store[p].present

\* ------------------------------------------------ properties of the stats

\* 1 for a step whose outcome is in S, 0 otherwise
CountIf(S) == IF ev'.res \in S THEN 1 ELSE 0

\* what a step of the walk, the cleanup or the second pass adds to the stats
CountsStep(self) ==
    /\ stats'[self].files_updated = 0
    /\ stats'[self].files_scanned = stats[self].files_scanned
           + CountIf({"meta_err", "upsert_err", "indexed", "skipped"})
    /\ stats'[self].files_indexed = stats[self].files_indexed + CountIf({"indexed"})
    /\ stats'[self].files_skipped = stats[self].files_skipped + CountIf({"skipped"})
    /\ stats'[self].errors = stats[self].errors + CountIf(ErrorOutcomes)

\* the failures of the run after its walk: of the cleanup, of extractions and
\* of media-field updates
LaterFailures ==
    (IF hist.cleanup = "err" THEN 1 ELSE 0)
    + Cardinality({p \in Paths :
                     hist.probe[p] \in {"failed", "ok_upd_err", "notmedia_upd_err"}})

\* the stats a run has when its scan ends: the entries scanned and neither
\* indexed nor skipped are failures of the walk, and the failures of the
\* walk that are left are entries the walker did not yield
StatsAddUp(self) ==
    LET st == stats[self]
        unread == st.files_scanned - st.files_indexed - st.files_skipped
        inWalk == st.errors - LaterFailures
    IN /\ st.files_updated = 0
       /\ st.files_indexed + st.files_skipped = Cardinality(hist.walked)
       /\ st.files_skipped = Cardinality(hist.skipped)
       /\ unread >= 0
       /\ inWalk >= unread
       /\ st.files_scanned + (inWalk - unread) <= Len(WalkOrder)

\* C39: the stats of every completed run satisfy: files_updated = 0;
\* files_scanned = files_indexed + files_skipped + the number of walked
\* entries whose metadata read or upsert failed; an entry the walker fails to
\* yield counts in errors but not in files_scanned; and errors is the sum of
\* the per-entry, cleanup, extraction and media-field update failures.
C39_StatsOfARun ==
    /\ [][\A self \in Procs : ScanStep(self) => CountsStep(self)]_vars
    /\ [](\A self \in Procs :
            /\ pc[self] = "canon" => stats[self] = DefaultStats
            /\ pc[self] \in {"walk", "cleanup", "phase2"} \/ EndOfScan(self)
                  => StatsAddUp(self))

\* a run ended after the walker failed on one entry, one upsert failed, one
\* entry was indexed, the cleanup failed and an extraction failed
C39_Witness ==
    /\ EndOfScan(Scanner)
    /\ stats[Scanner].files_scanned = 2
    /\ stats[Scanner].files_indexed = 1
    /\ stats[Scanner].files_skipped = 0
    /\ stats[Scanner].errors = 4
    /\ hist.cleanup = "err"
    /\ \E p \in Paths : hist.probe[p] = "failed"
    /\ \A p \in Paths : fs[p].exists
    /\ fsChanges = 0

\* ---------------------------------------- properties of the stored offsets

\* the length of the normalized bytes of a path
NormLen(p) == Len(as_bytes(normalize_path(p)))

\* the true byte start of entry i: the bytes of the entries before it
RECURSIVE TrueStart(_)
TrueStart(i) ==
    IF i = 1 THEN 0 ELSE TrueStart(i - 1) + NormLen(original_paths[i - 1])

\* the total normalized byte length of the entries
TrueTotal == TrueStart(Len(original_paths) + 1)

\* C40: the offsets are kept to their width: after build_from_entries,
\* add_entry and rename_entry every stored offset equals the true byte start
\* of its entry modulo the number of values of an offset, and so does the
\* buffer length the next offset is computed from; as long as the total
\* normalized byte length is below that number every stored offset is the
\* true start.
C40_OffsetsModulo ==
    iev # Panic =>
        /\ \A i \in 1..Len(offsets) : offsets[i] = TrueStart(i) % Modulus32
        /\ Len(normalized_paths) % Modulus32 = TrueTotal % Modulus32
        /\ TrueTotal < Modulus32 =>
              \A i \in 1..Len(offsets) : offsets[i] = TrueStart(i)

\* an entry was added behind more bytes than an offset can count: its stored
\* offset is its true start reduced, and the ranges no longer partition the
\* buffer
C40_Witness ==
    /\ iev.op = "add_entry"
    /\ TrueStart(Len(offsets)) >= Modulus32
    /\ offsets[Len(offsets)] = TrueStart(Len(offsets)) - Modulus32
    /\ ~C15_IndexWellFormed

====
